---- MODULE Spec2Model ----
(***************************************************************************)
(* Model of the task-and-flow control plane of iminsik/argo-workflow:      *)
(*   apps/backend/app/main.py               run_task, run_flow, list_tasks,*)
(*                                          get_run_logs, get_task_logs,   *)
(*                                          websocket_logs,                *)
(*                                          cancel_task, delete_task,      *)
(*                                          delete_flow,                   *)
(*                                          determine_workflow_phase       *)
(*   apps/backend/app/main.py               PersistentPVPod, the file      *)
(*                                          handlers (list_pv_files ...    *)
(*                                          upload_pv_file), submit_task,  *)
(*                                          create_flow, update_flow,      *)
(*                                          create_and_submit_workflow     *)
(*   apps/backend/app/workflow_hera.py      build_script_source,           *)
(*                                          create_workflow_with_hera      *)
(*   apps/backend/app/workflow_hera_flow.py create_flow_workflow_with_hera *)
(*   apps/backend/app/database.py           TaskRun, TaskLog, FlowRun      *)
(*                                                                         *)
(* The specifications share the variables:                                 *)
(*   Spec      the run store and the workflow engine under concurrent      *)
(*             requests (run_task, run_flow, list and pull operations);    *)
(*   SpecPhase determine_workflow_phase applied to a status document;      *)
(*   SpecAdvance determine_workflow_phase applied to the documents of one  *)
(*             workflow as the engine advances it;                         *)
(*   SpecFlow  create_flow_workflow_with_hera applied to a definition;     *)
(*   SpecPush  one push stream (websocket_logs) beside list_tasks;         *)
(*   SpecLogs  the log store under concurrent pulls (get_run_logs,         *)
(*             get_task_logs, save_logs_to_database);                      *)
(*   SpecStream, SpecStreamFair  the frames of one push stream             *)
(*             (websocket_logs) while the workflow runs, finishes or is    *)
(*             deleted (cancel_task).                                      *)
(*   SpecPurge cancel_task, delete_task and delete_flow beside one         *)
(*             run_task request and the polls;                             *)
(*   SpecPod   the helper pod (PersistentPVPod) under exec_command while   *)
(*             the pod starts, degrades or disappears;                     *)
(*   SpecFiles the path checks of the file handlers;                       *)
(*   SpecUpload concurrent uploads of one file name (upload_pv_file);      *)
(*   SpecVolumes the volume claim checks before a submission;              *)
(*   SpecDeps  the dependency strings submit_task, run_task, create_flow   *)
(*             and update_flow accept;                                     *)
(*   SpecSubmit submit_task and run_task on the tasks and their runs;      *)
(*   SpecManifest build_script_source and the template of a single task;   *)
(*   SpecSchema the columns init_db adds to a store at startup;            *)
(*   SpecSteps run_flow and get_flow_run on the step runs of a flow run;   *)
(*   SpecLegacy the log store under the schema without run_id;             *)
(*   SpecStuck the polls and run_task after a run's workflow is gone.      *)
(***************************************************************************)
EXTENDS Integers, Sequences, FiniteSets, TLC

VARIABLES
    task_runs,   \* table task_runs, in insertion order (row id = index)
    flow_runs,   \* table flow_runs, in insertion order (row id = index)
    workflows,   \* names of the workflow resources created in the engine
    req,         \* the in-flight run_task / run_flow requests
    ws,          \* the push stream (websocket_logs) of the one client
    status,      \* SpecPhase: the status document handed to the resolver
    resolved,    \* SpecPhase: what determine_workflow_phase returned
    flow_definition, \* SpecFlow: the definition handed to the synthesizer
    pvc_status,  \* SpecFlow: what the read of task-results-pvc returned
    synth,       \* SpecFlow: the outcome of create_flow_workflow_with_hera
    task_logs,   \* table task_logs, in insertion order (row id = index)
    pulls,       \* the in-flight get_run_logs / get_task_logs requests
    pulled,      \* what the last completed pull returned
    stream,      \* SpecStream: the local state of websocket_logs
    frames,      \* SpecStream: the frames the last step sent to the client
    wf_doc,      \* SpecStream: the workflow's status document in the engine
    tasks,       \* table tasks: the ids of its rows
    flows,       \* table flows: the ids of its rows
    purge,       \* the in-flight delete_task / delete_flow request
    delete_calls, \* the names cancel and purge asked the engine to delete
    reply,       \* what the last cancel_task / delete_task / delete_flow answered
    ops          \* the state of the other operations, one field each

\* The fields of ops.
pv_pod      == ops.pv_pod       \* SpecPod: the helper pod as the cluster holds it
mgr         == ops.mgr          \* SpecPod: the PersistentPVPod manager and its operation
file_req    == ops.file_req     \* SpecFiles: the file operation a client asked for
file_out    == ops.file_out     \* SpecFiles: its answer and the paths it used in the pod
pv_files    == ops.pv_files     \* SpecUpload: the files of one directory of the volume
uploads     == ops.uploads      \* SpecUpload: the in-flight upload_pv_file requests
submission  == ops.submission   \* SpecVolumes: a submission and the claims it verified
task_table  == ops.task_table   \* SpecSubmit: table tasks with the code and dependencies
run_table   == ops.run_table    \* SpecSubmit: table task_runs with the code snapshots
flow_table  == ops.flow_table   \* SpecSubmit: table flows with the step dependencies
manifests   == ops.manifests    \* SpecSubmit: the manifests submitted to the engine
store_reply == ops.store_reply  \* SpecSubmit: what the last submit or run request answered
build_in    == ops.build_in     \* SpecManifest: the inputs of a single-task manifest
build_out   == ops.build_out    \* SpecManifest: the manifest and script built from them
catalog     == ops.catalog      \* SpecSchema: the columns of the tables of the store
boot        == ops.boot         \* SpecSchema: the startups of the application
flow_run_row == ops.flow_run_row \* SpecSteps: the FlowRun row of one run of a flow
step_runs   == ops.step_runs    \* SpecSteps: table flow_step_runs of that run
flow_doc    == ops.flow_doc     \* SpecSteps: the status document of its workflow
legacy      == ops.legacy       \* SpecLegacy: table task_logs without run_id

vars == <<task_runs, flow_runs, workflows, req, ws,
          status, resolved, flow_definition, pvc_status, synth,
          task_logs, pulls, pulled, stream, frames, wf_doc,
          tasks, flows, purge, delete_calls, reply, ops>>

runVars   == <<task_runs, flow_runs, workflows, req, ws>>
phaseVars == <<status, resolved>>
flowVars  == <<flow_definition, pvc_status, synth>>
logVars   == <<task_logs, pulls, pulled>>
pushVars  == <<stream, frames, wf_doc>>
purgeVars == <<tasks, flows, purge, delete_calls, reply>>
opsVars   == <<ops>>

----------------------------------------------------------------------------
(* Bounds *)

MaxNodes == 2        \* node ids of a status document (SpecPhase)
MaxSteps == 2        \* steps of a flow definition (SpecFlow)
MaxEdges == 3        \* edges of a flow definition (SpecFlow)
MaxReq   == 2        \* run_task / run_flow requests clients make (Spec)
MaxPulls == 3        \* pull requests clients make (SpecLogs)
MaxTail  == 4        \* path tokens after the head of a path (SpecFiles)
MaxUploads == 2      \* concurrent uploads of one filename (SpecUpload)
MaxSuffix == 3       \* largest suffix _N an upload tries (SpecUpload)
MaxDepLen == 2       \* characters of a dependency string (SpecDeps)
MaxTasks == 2        \* rows of table tasks (SpecSubmit)
MaxRuns  == 1        \* rows of table task_runs (SpecDeps, SpecSubmit)
MaxReqLines == 2     \* lines of a requirements file (SpecManifest)
MaxBoots == 2        \* startups of the application (SpecSchema)
MaxLogRows == 3      \* rows of the table task_logs (SpecLegacy)

----------------------------------------------------------------------------
(* Status documents of the workflow engine *)

\* status.phase as the engine reports it; "" is a missing or empty phase.
TopPhases == {"", "Pending", "Running", "Succeeded", "Failed", "Error"}

\* node["type"]: only "Pod" is inspected, "DAG" stands for the other types.
NodeTypes == {"Pod", "DAG"}

\* node["phase"]; "" is a missing phase, "Skipped" a phase the resolver
\* has no branch for.
NodePhases == {"", "Pending", "Running", "Succeeded", "Failed", "Error",
               "Skipped"}

NodeRecords == [type : NodeTypes, phase : NodePhases]

NodeMaps(ids) == UNION {[S -> NodeRecords] : S \in SUBSET ids}

\* An empty status ({} or None) has no keys at all.
NoStatus == [empty |-> TRUE]

StatusDocs(ids) ==
    {NoStatus} \cup
    {[empty |-> FALSE, phase |-> p, nodes |-> n] :
        p \in TopPhases, n \in NodeMaps(ids)}

TerminalPhases == {"Succeeded", "Failed", "Error"}

ActivePhases == {"Running", "Pending"}

\* Is there a Pod node with one of the phases ps?
HasPod(nodes, ps) ==
    \E n \in DOMAIN nodes : nodes[n].type = "Pod" /\ nodes[n].phase \in ps

\* A variant that takes "only pending pods" literally: a pending pod
\* beside finished ones no longer yields Pending.
RunningBranchOnlyPending(phase, nodes) ==
    IF DOMAIN nodes = {} THEN "Pending"
    ELSE LET has_running_pod   == HasPod(nodes, {"Running"})
             has_succeeded_pod == HasPod(nodes, {"Succeeded"})
             has_pending_pod   == HasPod(nodes, {"Pending", ""})
             other_pod         == HasPod(nodes, NodePhases \ {"Pending", ""})
             any_pod           == HasPod(nodes, NodePhases)
         IN  IF has_running_pod THEN "Running"
             ELSE IF has_succeeded_pod /\ ~has_running_pod /\ ~has_pending_pod
                  THEN "Running"
             ELSE IF (has_pending_pod /\ ~other_pod) \/ ~any_pod THEN "Pending"
             ELSE phase

\* The Running branch of determine_workflow_phase (main.py 793-833).
RunningBranch(phase, nodes) ==
    IF DOMAIN nodes = {} THEN "Pending"
    ELSE LET has_running_pod   == HasPod(nodes, {"Running"})
             has_succeeded_pod == HasPod(nodes, {"Succeeded"})
             has_pending_pod   == HasPod(nodes, {"Pending", ""})
             any_pod           == HasPod(nodes, NodePhases)
         IN  IF has_running_pod THEN "Running"
             ELSE IF has_succeeded_pod /\ ~has_running_pod /\ ~has_pending_pod
                  THEN "Running"
             ELSE IF has_pending_pod \/ ~any_pod THEN "Pending"
             ELSE phase

\* A variant that inspects the nodes before it tests for a finished
\* workflow: a running pod overrides a terminal top-level phase.
determine_workflow_phase_nodes_first(st) ==
    IF st.empty THEN "Pending"
    ELSE IF st.phase = "" THEN "Pending"
    ELSE IF HasPod(st.nodes, {"Running"}) THEN "Running"
    ELSE IF st.phase \in TerminalPhases THEN st.phase
    ELSE IF st.phase = "Running" THEN RunningBranch(st.phase, st.nodes)
    ELSE st.phase

\* determine_workflow_phase (main.py 773-851).
determine_workflow_phase(st) ==
    IF st.empty THEN "Pending"
    ELSE IF st.phase = "" THEN "Pending"
    ELSE IF st.phase \in TerminalPhases THEN st.phase
    ELSE IF st.phase = "Running" THEN RunningBranch(st.phase, st.nodes)
    ELSE IF DOMAIN st.nodes # {} /\ HasPod(st.nodes, {"Running"})
            /\ st.phase = "Pending"
         THEN "Running"
    ELSE st.phase

----------------------------------------------------------------------------
(* Manifest synthesis for a flow: create_flow_workflow_with_hera *)

\* Step ids and edge endpoints are strings (FlowStepRequest.id,
\* FlowEdgeRequest.source/target); "" is the empty string.
StepIds == {"", "a", "b"}

SeqsUpTo(S, n) == UNION {[1..k -> S] : k \in 0..n}

Edges == [source : StepIds, target : StepIds]

FlowDefinitions ==
    [steps : SeqsUpTo(StepIds, MaxSteps), edges : SeqsUpTo(Edges, MaxEdges)]

\* What read_namespaced_persistent_volume_claim("task-results-pvc") gives:
\* the claim's phase, a 404, or another failure of the call.
PvcStatuses == {"Bound", "Pending", "NotFound", "Unverified"}

Range(f) == {f[i] : i \in DOMAIN f}

Perms(S) == {p \in [1..Cardinality(S) -> S] : Range(p) = S}

\* `if source and target`: both endpoints are non-empty.
EdgeChecked(e) == e.source # "" /\ e.target # ""

\* The edge raises "Edge references invalid step".
EdgeInvalid(e, step_ids) ==
    EdgeChecked(e) /\ (e.source \notin step_ids \/ e.target \notin step_ids)

\* [edge["source"] for edge in edges if keep(edge)], as a list.
SourcesOf(kept) == [i \in DOMAIN kept |-> kept[i].source]

\* dependencies_map[target], appended to in edge order (lines 545-556).
dependencies_map(defn, step_id) ==
    LET keep(e) == EdgeChecked(e) /\ e.target = step_id
    IN  SourcesOf(SelectSeq(defn.edges, keep))

RECURSIVE has_cycle(_, _, _, _), DepLoop(_, _, _, _, _)
\* The loop `for dep in dependencies_map.get(step_id, [])` of has_cycle,
\* from its i-th element on; visited and rec_stack are the shared sets.
DepLoop(defn, step_id, i, visited, rec_stack) ==
    LET deps == dependencies_map(defn, step_id)
    IN  IF i > Len(deps)
        THEN [found |-> FALSE, visited |-> visited,
              rec_stack |-> rec_stack \ {step_id}]
        ELSE IF deps[i] \notin visited
             THEN LET res == has_cycle(defn, deps[i], visited, rec_stack)
                  IN  IF res.found THEN res
                      ELSE DepLoop(defn, step_id, i + 1,
                                   res.visited, res.rec_stack)
        ELSE IF deps[i] \in rec_stack
             THEN [found |-> TRUE, visited |-> visited,
                   rec_stack |-> rec_stack]
        ELSE DepLoop(defn, step_id, i + 1, visited, rec_stack)

\* has_cycle(step_id, visited, rec_stack) (lines 559-571).
has_cycle(defn, step_id, visited, rec_stack) ==
    DepLoop(defn, step_id, 1, visited \cup {step_id}, rec_stack \cup {step_id})

RECURSIVE CycleScan(_, _, _, _)
\* `for step_id in step_ids: if step_id not in visited: ...` (lines 573-580),
\* from the i-th element of the set's iteration order on.
CycleScan(defn, order, i, visited) ==
    IF i > Len(order) THEN FALSE
    ELSE IF order[i] \in visited THEN CycleScan(defn, order, i + 1, visited)
    ELSE LET res == has_cycle(defn, order[i], visited, {})
         IN  res.found \/ CycleScan(defn, order, i + 1, res.visited)

\* The DAG template's tasks (lines 711-727): one per element of steps.
DagTasks(defn) ==
    [i \in DOMAIN defn.steps |->
        [name |-> defn.steps[i],
         dependencies |->
            LET keep(e) == e.target = defn.steps[i]
            IN  SourcesOf(SelectSeq(defn.edges, keep))]]

NoTasks == <<>>

\* create_flow_workflow_with_hera (lines 490-780): pvc is the answer to the
\* claim read, order the iteration order of the set step_ids, engine_ok
\* whether the engine accepted the created resource.
create_flow_workflow_with_hera(defn, pvc, order, engine_ok) ==
    LET step_ids == Range(defn.steps)
    IN  IF pvc = "Pending" THEN [outcome |-> "pvc_not_bound", tasks |-> NoTasks]
        ELSE IF pvc = "NotFound"
             THEN [outcome |-> "pvc_not_found", tasks |-> NoTasks]
        ELSE IF defn.steps = <<>>
             THEN [outcome |-> "no_steps", tasks |-> NoTasks]
        ELSE IF \E i \in DOMAIN defn.edges : EdgeInvalid(defn.edges[i], step_ids)
             THEN [outcome |-> "invalid_edge", tasks |-> NoTasks]
        ELSE IF CycleScan(defn, order, 1, {})
             THEN [outcome |-> "cycle", tasks |-> NoTasks]
        ELSE IF ~engine_ok
             THEN [outcome |-> "engine_error", tasks |-> DagTasks(defn)]
        ELSE [outcome |-> "submitted", tasks |-> DagTasks(defn)]

NotSynthesized == [outcome |-> "none", tasks |-> NoTasks]

\* SpecFlow: a definition is drawn, then synthesized once.
InitFlowInput ==
    /\ flow_definition \in FlowDefinitions
    /\ pvc_status = "unread"
    /\ synth = NotSynthesized

Synthesize(pvc, order, engine_ok) ==
    /\ synth = NotSynthesized
    /\ pvc_status' = pvc
    /\ synth' = create_flow_workflow_with_hera(flow_definition, pvc, order,
                                               engine_ok)
    /\ UNCHANGED <<opsVars, flow_definition, runVars, phaseVars, logVars, pushVars,
                   purgeVars>>

----------------------------------------------------------------------------
(* The run store and the engine: run_task, run_flow, list, pull, push *)

Tasks == {"t1"}            \* rows of table tasks
Flows == {"f1"}            \* rows of table flows

Reqs == 1..MaxReq

\* The definition stored with each flow (Flow.definition).
FlowTable ==
    [f \in Flows |->
        [steps |-> <<"a", "b">>,
         edges |-> <<[source |-> "a", target |-> "b"]>>]]

\* What get_namespaced_custom_object answers for a workflow: a status
\* document with no node or one running pod node, or a failure of the call.
\* Under a terminal top-level phase determine_workflow_phase does not look
\* at the nodes, and those documents come without nodes.
EngineError == [empty |-> TRUE, error |-> TRUE]

EngineNodeMaps ==
    UNION {[S -> [type : {"Pod"}, phase : {"Running"}]] :
             S \in SUBSET {"n1"}}

EngineResponses ==
    {EngineError, NoStatus}
    \cup {[empty |-> FALSE, phase |-> p, nodes |-> n] :
            p \in TopPhases \ TerminalPhases, n \in EngineNodeMaps}
    \cup {[empty |-> FALSE, phase |-> p, nodes |-> n] :
            p \in TerminalPhases,
            n \in {m \in EngineNodeMaps : DOMAIN m = {}}}

NewRun(owner, workflow_id, run_number) ==
    [owner |-> owner, workflow_id |-> workflow_id,
     run_number |-> run_number, phase |-> "Pending"]

Idle == [op |-> "none", pc |-> "idle", target |-> "none",
         workflow_id |-> 0, next_run_number |-> 0]

WsClosed == [open |-> FALSE, run |-> 0, cache |-> "expired", first |-> FALSE]

RunIdsOf(runs, owner) == {i \in DOMAIN runs : runs[i].owner = owner}

\* The rows `ORDER BY run_number DESC LIMIT 1` may return: with equal
\* run numbers the store returns any one of them.
LatestRunIds(runs, owner) ==
    {i \in RunIdsOf(runs, owner) :
        \A j \in RunIdsOf(runs, owner) : runs[j].run_number <= runs[i].run_number}

\* The rows `WHERE run_number = n LIMIT 1` may return.
RunIdsNumbered(runs, owner, n) ==
    {i \in RunIdsOf(runs, owner) : runs[i].run_number = n}

\* `latest_phase in ["Running", "Pending"]` (main.py 1053, 2973).
\* A variant that tests for "Running" only.
IsActiveRunningOnly(phase) == phase = "Running"

IsActive(phase) == phase \in ActivePhases

\* `(max_run.run_number + 1) if max_run else 1` (main.py 1087-1088, 2994-2995).
NextRunNumber(runs, owner) ==
    IF RunIdsOf(runs, owner) = {} THEN 1
    ELSE LET l == CHOOSE i \in LatestRunIds(runs, owner) : TRUE
         IN  runs[l].run_number + 1

\* A variant that stores the top-level phase of the document as the
\* engine reports it.
SyncRunPhaseTopLevel(runs, i, resp) ==
    IF resp = EngineError \/ resp.empty THEN runs
    ELSE IF runs[i].phase # resp.phase
         THEN [runs EXCEPT ![i].phase = resp.phase]
         ELSE runs

\* `if current_phase != phase: run.phase = phase; db.commit()`
\* (main.py 1299-1305, 1503-1518, 1651-1666): no test of the stored phase.
SyncRunPhase(runs, i, resp) ==
    IF resp = EngineError THEN runs
    ELSE LET phase == determine_workflow_phase(resp)
         IN  IF runs[i].phase # phase
             THEN [runs EXCEPT ![i].phase = phase]
             ELSE runs

NewWorkflowId == Cardinality(DOMAIN workflows) + 1

PullSlots == 1..MaxPulls

PullIdle == [pc |-> "idle"]

PullReturned == [pc |-> "returned"]

NoPull == [source |-> "none"]

\* websocket_logs before a client connects.
StreamClosed == [pc |-> "closed"]

PurgeIdle == [pc |-> "idle"]

NoReply == [op |-> "none"]

\* The helper pod before the process started: no pod in the cluster.
PodAbsent ==
    [present |-> FALSE, phase |-> "none", ready |-> FALSE,
     terminating |-> FALSE, observed |-> FALSE]

\* PersistentPVPod.__init__ (main.py 164-168): _pod_ready = False; no
\* operation is running.
MgrIdle ==
    [pc |-> "idle", op |-> "none", pod_ready |-> FALSE, waited |-> 0,
     execs |-> 0, recreate_pending |-> FALSE]

NoFileReq == [op |-> "none"]

NoFileOut == [status |-> 0, paths |-> <<>>]

UploadIdle == [pc |-> "idle"]

NoSubmission == [kind |-> "none"]

NoStoreReply == [op |-> "none"]

NoBuild == [kind |-> "none"]

\* The tables of the tasks, their runs and their logs.
StoreTables == {"tasks", "task_runs", "task_logs"}

\* A database without tables.
EmptyStore == [tb \in StoreTables |-> {}]

NoBoot ==
    [boots |-> 0, completed |-> FALSE, initialized |-> FALSE,
     cut_short |-> FALSE]

NoFlowRun == [op |-> "none"]

\* The engine has not seen the workflow.
NoFlowDoc == [phase |-> "", nodes |-> <<>>]

\* Table task_logs of a store without run_id, empty; saved is, for each
\* run, what its last save of each (node, pod) wrote, and reply the answer
\* of the last read.
NoLegacyLogs ==
    [rows |-> <<>>, saved |-> {}, reply |-> [run |-> 0, logs |-> <<>>]]

\* No operation has been asked for.
OpsIdle ==
    [pv_pod |-> PodAbsent, mgr |-> MgrIdle,
     file_req |-> NoFileReq, file_out |-> NoFileOut,
     pv_files |-> [n \in 0..MaxSuffix |-> "none"],
     uploads |-> [u \in 1..MaxUploads |-> UploadIdle],
     submission |-> NoSubmission,
     task_table |-> <<>>, run_table |-> <<>>, flow_table |-> <<>>,
     manifests |-> <<>>, store_reply |-> NoStoreReply,
     build_in |-> NoBuild, build_out |-> NoBuild,
     catalog |-> EmptyStore, boot |-> NoBoot,
     flow_run_row |-> NoFlowRun, step_runs |-> <<>>, flow_doc |-> NoFlowDoc,
     legacy |-> NoLegacyLogs]

InitOpsIdle == ops = OpsIdle

\* Every task and flow has its row; nothing is being deleted.
InitPurgeIdle ==
    /\ InitOpsIdle
    /\ tasks = Tasks
    /\ flows = Flows
    /\ purge = PurgeIdle
    /\ delete_calls = {}
    /\ reply = NoReply

InitLogsIdle ==
    /\ task_logs = <<>>
    /\ pulls = [s \in PullSlots |-> PullIdle]
    /\ pulled = NoPull
    /\ stream = StreamClosed
    /\ frames = <<>>
    /\ wf_doc = NoStatus
    /\ InitPurgeIdle

InitRun ==
    /\ task_runs = <<>>
    /\ flow_runs = <<>>
    /\ workflows = <<>>
    /\ req = [r \in Reqs |-> Idle]
    /\ ws = WsClosed
    /\ InitLogsIdle

InitPhaseIdle == status = NoStatus /\ resolved = "none"

InitFlowIdle ==
    /\ flow_definition = [steps |-> <<>>, edges |-> <<>>]
    /\ pvc_status = "unread"
    /\ synth = NotSynthesized

\* run_task, lines 1026-1057: load the task, look at its latest run.
RunTaskCheck(r, t) ==
    /\ req[r].pc = "idle"
    /\ t \in tasks
    /\ \/ /\ LatestRunIds(task_runs, t) = {}
          /\ req' = [req EXCEPT ![r] = [Idle EXCEPT !.op = "run_task",
                                        !.pc = "checked", !.target = t]]
       \/ \E l \in LatestRunIds(task_runs, t) :
             req' = [req EXCEPT ![r] =
                        [Idle EXCEPT !.op = "run_task", !.target = t,
                            !.pc = IF IsActive(task_runs[l].phase)
                                   THEN "rejected" ELSE "checked"]]
    /\ UNCHANGED <<task_runs, flow_runs, workflows, ws>>
    /\ UNCHANGED <<opsVars, phaseVars, flowVars, logVars, pushVars, purgeVars>>

\* run_task, lines 1059-1083: create_and_submit_workflow either raises or
\* returns the name the engine generated.
RunTaskSubmit(r, ok) ==
    /\ req[r].op = "run_task" /\ req[r].pc = "checked"
    /\ IF ok
       THEN /\ workflows' = Append(workflows, TRUE)
            /\ req' = [req EXCEPT ![r].pc = "submitted",
                                  ![r].workflow_id = NewWorkflowId]
       ELSE /\ req' = [req EXCEPT ![r].pc = "failed"]
            /\ UNCHANGED workflows
    /\ UNCHANGED <<task_runs, flow_runs, ws>>
    /\ UNCHANGED <<opsVars, phaseVars, flowVars, logVars, pushVars, purgeVars>>

\* run_task, lines 1085-1097: read the highest run number.
RunTaskNumber(r) ==
    /\ req[r].op = "run_task" /\ req[r].pc = "submitted"
    /\ req' = [req EXCEPT ![r].pc = "numbered",
                  ![r].next_run_number = NextRunNumber(task_runs, req[r].target)]
    /\ UNCHANGED <<task_runs, flow_runs, workflows, ws>>
    /\ UNCHANGED <<opsVars, phaseVars, flowVars, logVars, pushVars, purgeVars>>

\* run_task, lines 1099-1113: insert the TaskRun row and commit; the
\* insert fails if the task's row is gone (task_runs.task_id references
\* tasks.id, database.py 51).
RunTaskInsert(r) ==
    /\ req[r].op = "run_task" /\ req[r].pc = "numbered"
    /\ IF req[r].target \in tasks
       THEN /\ task_runs' = Append(task_runs,
                                   NewRun(req[r].target, req[r].workflow_id,
                                          req[r].next_run_number))
            /\ req' = [req EXCEPT ![r].pc = "done"]
       ELSE /\ req' = [req EXCEPT ![r].pc = "failed"]
            /\ UNCHANGED task_runs
    /\ UNCHANGED <<flow_runs, workflows, ws>>
    /\ UNCHANGED <<opsVars, phaseVars, flowVars, logVars, pushVars, purgeVars>>

\* run_flow, lines 2963-2977.
RunFlowCheck(r, f) ==
    /\ req[r].pc = "idle"
    /\ f \in Flows
    /\ \/ /\ LatestRunIds(flow_runs, f) = {}
          /\ req' = [req EXCEPT ![r] = [Idle EXCEPT !.op = "run_flow",
                                        !.pc = "checked", !.target = f]]
       \/ \E l \in LatestRunIds(flow_runs, f) :
             req' = [req EXCEPT ![r] =
                        [Idle EXCEPT !.op = "run_flow", !.target = f,
                            !.pc = IF IsActive(flow_runs[l].phase)
                                   THEN "rejected" ELSE "checked"]]
    /\ UNCHANGED <<task_runs, flow_runs, workflows, ws>>
    /\ UNCHANGED <<opsVars, phaseVars, flowVars, logVars, pushVars, purgeVars>>

\* run_flow, lines 2979-2991: synthesize and submit the flow's workflow.
RunFlowSubmit(r, pvc, engine_ok) ==
    /\ req[r].op = "run_flow" /\ req[r].pc = "checked"
    /\ \E order \in Perms(Range(FlowTable[req[r].target].steps)) :
         LET res == create_flow_workflow_with_hera(FlowTable[req[r].target],
                                                   pvc, order, engine_ok)
         IN  IF res.outcome = "submitted"
             THEN /\ workflows' = Append(workflows, TRUE)
                  /\ req' = [req EXCEPT ![r].pc = "submitted",
                                        ![r].workflow_id = NewWorkflowId]
             ELSE /\ req' = [req EXCEPT ![r].pc = "failed"]
                  /\ UNCHANGED workflows
    /\ UNCHANGED <<task_runs, flow_runs, ws>>
    /\ UNCHANGED <<opsVars, phaseVars, flowVars, logVars, pushVars, purgeVars>>

\* run_flow, lines 2993-2995.
RunFlowNumber(r) ==
    /\ req[r].op = "run_flow" /\ req[r].pc = "submitted"
    /\ req' = [req EXCEPT ![r].pc = "numbered",
                  ![r].next_run_number = NextRunNumber(flow_runs, req[r].target)]
    /\ UNCHANGED <<task_runs, flow_runs, workflows, ws>>
    /\ UNCHANGED <<opsVars, phaseVars, flowVars, logVars, pushVars, purgeVars>>

\* run_flow, lines 2997-3006.
RunFlowInsert(r) ==
    /\ req[r].op = "run_flow" /\ req[r].pc = "numbered"
    /\ flow_runs' = Append(flow_runs, NewRun(req[r].target, req[r].workflow_id,
                                            req[r].next_run_number))
    /\ req' = [req EXCEPT ![r].pc = "done"]
    /\ UNCHANGED <<task_runs, workflows, ws>>
    /\ UNCHANGED <<opsVars, phaseVars, flowVars, logVars, pushVars, purgeVars>>

TasksWithRuns == {t \in Tasks : RunIdsOf(task_runs, t) # {}}

\* list_tasks (main.py 1237-1337): for every task, the latest run's phase
\* is synchronised with the engine's answer for its workflow.
ListTasks(latest, resp) ==
    /\ TasksWithRuns # {}
    /\ \A t \in TasksWithRuns : latest[t] \in LatestRunIds(task_runs, t)
    /\ task_runs' =
         [i \in DOMAIN task_runs |->
             IF latest[task_runs[i].owner] = i
             THEN SyncRunPhase(task_runs, i, resp[task_runs[i].owner])[i]
             ELSE task_runs[i]]
    /\ UNCHANGED <<flow_runs, workflows, req, ws>>
    /\ UNCHANGED <<opsVars, phaseVars, flowVars, logVars, pushVars, purgeVars>>

\* get_run_logs (main.py 1456-1539), the run's phase.
GetRunLogs(t, n, resp) ==
    /\ \E i \in RunIdsNumbered(task_runs, t, n) :
          task_runs' = SyncRunPhase(task_runs, i, resp)
    /\ UNCHANGED <<flow_runs, workflows, req, ws>>
    /\ UNCHANGED <<opsVars, phaseVars, flowVars, logVars, pushVars, purgeVars>>

\* get_task_logs (main.py 1584-1687), the run's phase; n = 0 stands for an
\* absent run_number and selects the latest run.
GetTaskLogs(t, n, resp) ==
    /\ \E i \in (IF n = 0 THEN LatestRunIds(task_runs, t)
                 ELSE RunIdsNumbered(task_runs, t, n)) :
          task_runs' = SyncRunPhase(task_runs, i, resp)
    /\ UNCHANGED <<flow_runs, workflows, req, ws>>
    /\ UNCHANGED <<opsVars, phaseVars, flowVars, logVars, pushVars, purgeVars>>

\* get_flow_run (main.py 3162-3199), the flow run's phase.
GetFlowRun(f, n, resp) ==
    /\ \E i \in RunIdsNumbered(flow_runs, f, n) :
          flow_runs' = SyncRunPhase(flow_runs, i, resp)
    /\ UNCHANGED <<task_runs, workflows, req, ws>>
    /\ UNCHANGED <<opsVars, phaseVars, flowVars, logVars, pushVars, purgeVars>>

ActiveRunIdsOf(runs, owner) ==
    {i \in RunIdsOf(runs, owner) : runs[i].phase \in ActivePhases}

\* list_flow_runs (main.py 3093-3132): only the runs stored as Pending or
\* Running are synchronised with the engine.
ListFlowRuns(f, resp) ==
    /\ ActiveRunIdsOf(flow_runs, f) # {}
    /\ flow_runs' =
         [i \in DOMAIN flow_runs |->
             IF i \in ActiveRunIdsOf(flow_runs, f)
             THEN SyncRunPhase(flow_runs, i, resp[i])[i]
             ELSE flow_runs[i]]
    /\ UNCHANGED <<task_runs, workflows, req, ws>>
    /\ UNCHANGED <<opsVars, phaseVars, flowVars, logVars, pushVars, purgeVars>>

\* websocket_logs, lines 1735-1781: the stream binds to the latest run; the
\* session holds the row as loaded.
WsConnect(t) ==
    /\ ~ws.open
    /\ \E l \in LatestRunIds(task_runs, t) :
          ws' = [open |-> TRUE, run |-> l, cache |-> task_runs[l].phase,
                 first |-> TRUE]
    /\ UNCHANGED <<task_runs, flow_runs, workflows, req>>
    /\ UNCHANGED <<opsVars, phaseVars, flowVars, logVars, pushVars, purgeVars>>

\* A variant of WsTick that stores Failed when the status read fails.
WsTickMarksFailed(resp, saved) ==
    /\ ws.open
    /\ IF resp = EngineError
       THEN /\ ws' = [ws EXCEPT !.first = FALSE]
            /\ task_runs' = [task_runs EXCEPT ![ws.run].phase = "Failed"]
       ELSE LET phase == determine_workflow_phase(resp)
                current_phase == IF ws.cache = "expired"
                                 THEN task_runs[ws.run].phase ELSE ws.cache
                changed == current_phase # phase
            IN  /\ task_runs' = IF changed
                                THEN [task_runs EXCEPT ![ws.run].phase = phase]
                                ELSE task_runs
                /\ ws' = IF ~ws.first /\ phase \in TerminalPhases
                         THEN WsClosed
                         ELSE [ws EXCEPT !.first = FALSE,
                                  !.cache = IF changed \/ saved
                                            THEN "expired" ELSE current_phase]
    /\ UNCHANGED <<flow_runs, workflows, req>>
    /\ UNCHANGED <<opsVars, phaseVars, flowVars, logVars, pushVars, purgeVars>>

\* One call of fetch_and_send_logs and the loop's test that follows it
\* (main.py 1784-1960).  latest_run.phase is the session's copy of the row:
\* it is reloaded only after a commit of this session; saved tells whether
\* save_logs_to_database ran (and committed) in this call.
WsTick(resp, saved) ==
    /\ ws.open
    /\ IF resp = EngineError
       THEN /\ ws' = [ws EXCEPT !.first = FALSE]
            /\ UNCHANGED task_runs
       ELSE LET phase == determine_workflow_phase(resp)
                current_phase == IF ws.cache = "expired"
                                 THEN task_runs[ws.run].phase ELSE ws.cache
                changed == current_phase # phase
            IN  /\ task_runs' = IF changed
                                THEN [task_runs EXCEPT ![ws.run].phase = phase]
                                ELSE task_runs
                /\ ws' = IF ~ws.first /\ phase \in TerminalPhases
                         THEN WsClosed
                         ELSE [ws EXCEPT !.first = FALSE,
                                  !.cache = IF changed \/ saved
                                            THEN "expired" ELSE current_phase]
    /\ UNCHANGED <<flow_runs, workflows, req>>
    /\ UNCHANGED <<opsVars, phaseVars, flowVars, logVars, pushVars, purgeVars>>

\* The client closes the connection.
WsDisconnect ==
    /\ ws.open
    /\ ws' = WsClosed
    /\ UNCHANGED <<task_runs, flow_runs, workflows, req>>
    /\ UNCHANGED <<opsVars, phaseVars, flowVars, logVars, pushVars, purgeVars>>

RunNumbers == 0..MaxReq

Init == InitRun /\ InitPhaseIdle /\ InitFlowIdle

Next ==
    \/ \E r \in Reqs, t \in Tasks : RunTaskCheck(r, t)
    \/ \E r \in Reqs, ok \in BOOLEAN : RunTaskSubmit(r, ok)
    \/ \E r \in Reqs : RunTaskNumber(r)
    \/ \E r \in Reqs : RunTaskInsert(r)
    \/ \E r \in Reqs, f \in Flows : RunFlowCheck(r, f)
    \/ \E r \in Reqs, pvc \in PvcStatuses, engine_ok \in BOOLEAN :
          RunFlowSubmit(r, pvc, engine_ok)
    \/ \E r \in Reqs : RunFlowNumber(r)
    \/ \E r \in Reqs : RunFlowInsert(r)
    \/ \E latest \in [TasksWithRuns -> DOMAIN task_runs],
          resp \in [TasksWithRuns -> EngineResponses] :
          ListTasks(latest, resp)
    \/ \E t \in Tasks, n \in 1..MaxReq, resp \in EngineResponses :
          GetRunLogs(t, n, resp)
    \/ \E t \in Tasks, n \in RunNumbers, resp \in EngineResponses :
          GetTaskLogs(t, n, resp)
    \/ \E f \in Flows, n \in 1..MaxReq, resp \in EngineResponses :
          GetFlowRun(f, n, resp)
    \/ \E f \in Flows :
          \E resp \in [ActiveRunIdsOf(flow_runs, f) -> EngineResponses] :
             ListFlowRuns(f, resp)

Spec == Init /\ [][Next]_vars

----------------------------------------------------------------------------
(* SpecPhase: the Phase Resolver on a status document *)

InitPhase ==
    /\ InitRun /\ InitFlowIdle
    /\ status \in StatusDocs(1..MaxNodes)
    /\ resolved = "none"

ResolvePhase ==
    /\ resolved = "none"
    /\ resolved' = determine_workflow_phase(status)
    /\ UNCHANGED <<opsVars, status, runVars, flowVars, logVars, pushVars, purgeVars>>

NextPhase == ResolvePhase

SpecPhase == InitPhase /\ [][NextPhase]_vars

----------------------------------------------------------------------------
(* SpecAdvance: the Phase Resolver along the documents of one workflow *)

\* How far a phase of the engine is: missing, Pending, Running, finished.
PhaseRank(p) ==
    IF p = "" THEN 0 ELSE IF p = "Pending" THEN 1
    ELSE IF p = "Running" THEN 2 ELSE 3

\* A phase stays, or moves on to a later one; a finished phase stays.
PhaseAdvances(p, q) == p = q \/ PhaseRank(p) < PhaseRank(q)

\* Document b is what the engine may report after document a: the
\* top-level phase and the phase of every node stay or move on, and nodes
\* are only added.
Advances(a, b) ==
    IF a.empty THEN TRUE
    ELSE IF b.empty THEN FALSE
    ELSE /\ PhaseAdvances(a.phase, b.phase)
         /\ DOMAIN a.nodes \subseteq DOMAIN b.nodes
         /\ \A n \in DOMAIN a.nodes :
               /\ a.nodes[n].type = b.nodes[n].type
               /\ PhaseAdvances(a.nodes[n].phase, b.nodes[n].phase)

\* A later poll: the engine reports a document the workflow has advanced
\* to, and determine_workflow_phase (main.py 773-851) is applied to it.
ResolveNext(d) ==
    /\ resolved # "none"
    /\ d # status
    /\ Advances(status, d)
    /\ status' = d
    /\ resolved' = determine_workflow_phase(d)
    /\ UNCHANGED <<opsVars, runVars, flowVars, logVars, pushVars, purgeVars>>

NextAdvance ==
    \/ ResolvePhase
    \/ \E d \in StatusDocs(1..MaxNodes) : ResolveNext(d)

SpecAdvance == InitPhase /\ [][NextAdvance]_vars

----------------------------------------------------------------------------
(* SpecFlow: the Manifest Synthesizer on a flow definition *)

InitFlow == InitRun /\ InitPhaseIdle /\ InitFlowInput

NextFlow ==
    \E pvc \in PvcStatuses, engine_ok \in BOOLEAN :
       \E order \in Perms(Range(flow_definition.steps)) :
          Synthesize(pvc, order, engine_ok)

SpecFlow == InitFlow /\ [][NextFlow]_vars

----------------------------------------------------------------------------
(* SpecPush: one push stream beside the list and pull operations *)

InitPush ==
    /\ InitPhaseIdle /\ InitFlowIdle /\ InitLogsIdle
    /\ \E p \in ActivePhases \cup TerminalPhases :
          task_runs = <<[NewRun("t1", 1, 1) EXCEPT !.phase = p]>>
    /\ flow_runs = <<>>
    /\ workflows = <<TRUE>>
    /\ req = [r \in Reqs |-> Idle]
    /\ ws = WsClosed

NextPush ==
    \/ \E t \in Tasks : WsConnect(t)
    \/ \E resp \in EngineResponses, saved \in BOOLEAN : WsTick(resp, saved)
    \/ WsDisconnect
    \/ \E latest \in [TasksWithRuns -> DOMAIN task_runs],
          resp \in [TasksWithRuns -> EngineResponses] :
          ListTasks(latest, resp)

SpecPush == InitPush /\ [][NextPush]_vars

----------------------------------------------------------------------------
(* SpecLogs: the log store under concurrent pulls *)

\* What read_namespaced_pod_log gives for a pod: nothing yet (the pod is
\* Pending or initializing, the node is skipped), its text, or an error
\* whose text becomes the entry's body.
Bodies == {"line", "Error fetching logs: e"}

PodOutcomes == {"skip"} \cup Bodies

\* A pod that has either nothing to read yet or its one line.
PullPodOutcomes == {"skip", "line"}

\* The iteration order of status.nodes.
NodeOrder == <<"n1">>

LogEntry(node, pod, phase, logs) ==
    [node |-> node, pod |-> pod, phase |-> phase, logs |-> logs]

\* fetch_logs_from_kubernetes (main.py 347-494): resp is what its own read
\* of the workflow returned, out what the pod's log read gave, message
\* whether status.message is set.
fetch_logs_from_kubernetes(resp, out, message) ==
    IF resp = EngineError THEN [failed |-> TRUE, logs |-> <<>>]
    ELSE LET nodes == IF resp.empty THEN <<>> ELSE resp.nodes
             workflow_phase == determine_workflow_phase(resp)
             phase_of(n) ==
                 IF workflow_phase \in TerminalPhases THEN workflow_phase
                 ELSE IF nodes[n].phase = "" THEN "Pending"
                 ELSE nodes[n].phase
             IsKept(n) == /\ n \in DOMAIN nodes
                          /\ nodes[n].type = "Pod"
                          /\ out # "skip"
             kept == SelectSeq(NodeOrder, IsKept)
             all_logs == [k \in 1..Len(kept) |->
                            LogEntry(kept[k], "p1", phase_of(kept[k]), out)]
         IN  IF all_logs = <<>> /\ message /\ ~resp.empty
             THEN [failed |-> FALSE,
                   logs |-> <<LogEntry("workflow", "N/A", resp.phase,
                                       "Workflow message: m")>>]
             ELSE [failed |-> FALSE, logs |-> all_logs]

LogIdsOf(rows, run_id) == {k \in DOMAIN rows : rows[k].run_id = run_id}

\* get_logs_from_database (main.py 629-659): the rows of the run, ordered by
\* created_at, as entries.
get_logs_from_database(rows, run_id) ==
    LET OfRun(k) == rows[k].run_id = run_id
        ids == SelectSeq([k \in 1..Len(rows) |-> k], OfRun)
    IN  [j \in 1..Len(ids) |->
            LogEntry(rows[ids[j]].node_id, rows[ids[j]].pod_name,
                     rows[ids[j]].phase, rows[ids[j]].logs)]

\* The rows the lookup of save_logs_to_database (main.py 515-519) matches.
ExistingIds(rows, run_id, e) ==
    {k \in LogIdsOf(rows, run_id) :
        rows[k].node_id = e.node /\ rows[k].pod_name = e.pod}

\* What the lookups of one save may answer: for every entry a matching row,
\* 0 if there is none; `.first()` has no ORDER BY, so with several matching
\* rows the store picks one, the same one within a transaction.
Lookups(rows, run_id, save) ==
    {h \in [1..Len(save) -> 0..Len(rows)] :
        /\ \A j \in 1..Len(save) :
              IF ExistingIds(rows, run_id, save[j]) = {} THEN h[j] = 0
              ELSE h[j] \in ExistingIds(rows, run_id, save[j])
        /\ \A j, k \in 1..Len(save) :
              (save[j].node = save[k].node /\ save[j].pod = save[k].pod)
                 => h[j] = h[k]}

\* `if current_workflow_phase in [...]: log_entry["phase"] = ...`
\* (main.py 1546-1553, 1697-1703).
TerminalRewrite(db_logs, phase) ==
    IF phase \in TerminalPhases
    THEN [j \in 1..Len(db_logs) |-> [db_logs[j] EXCEPT !.phase = phase]]
    ELSE db_logs

NotCalled == [called |-> FALSE]

Fetched(k8s) == [called |-> TRUE, failed |-> k8s.failed, logs |-> k8s.logs]

\* A variant that asks the engine first and falls back to the stored logs.
PullResultEngineFirst(db_logs, phase, k8s) ==
    IF ~k8s.failed /\ k8s.logs # <<>>
    THEN [source |-> "kubernetes", logs |-> k8s.logs, save |-> k8s.logs,
          fetch |-> Fetched(k8s)]
    ELSE IF db_logs # <<>>
    THEN [source |-> "database", logs |-> TerminalRewrite(db_logs, phase),
          save |-> <<>>, fetch |-> Fetched(k8s)]
    ELSE [source |-> "kubernetes", logs |-> <<>>, save |-> <<>>,
          fetch |-> Fetched(k8s)]

\* The second half of get_run_logs / get_task_logs (main.py 1541-1575,
\* 1693-1720): what is returned and what is handed to
\* save_logs_to_database.
PullResult(db_logs, phase, k8s) ==
    IF db_logs # <<>>
    THEN LET rewritten == TerminalRewrite(db_logs, phase)
         IN  [source |-> "database", logs |-> rewritten,
              save |-> IF rewritten # db_logs THEN rewritten ELSE <<>>,
              fetch |-> NotCalled]
    ELSE IF k8s.failed
    THEN [source |-> "error", logs |-> <<>>, save |-> <<>>,
          fetch |-> Fetched(k8s)]
    ELSE [source |-> "kubernetes", logs |-> k8s.logs, save |-> k8s.logs,
          fetch |-> Fetched(k8s)]

\* The response of a pull, with what the request observed: the phase the
\* resolver gave for the status it read ("unresolved" if the read failed)
\* and what fetch_logs_from_kubernetes answered, if it was called.
PullResponse(i, resp, phase, result) ==
    [run |-> i, phase |-> phase, source |-> result.source,
     logs |-> result.logs,
     resolved |-> IF resp = EngineError THEN "unresolved" ELSE phase,
     fetch |-> result.fetch]

\* Slot s is the one the next request takes.
SlotFree(s) ==
    /\ pulls[s].pc = "idle"
    /\ \A q \in PullSlots : q < s => pulls[q].pc # "idle"

\* The pull of run row i up to the lookups of save_logs_to_database; a pull
\* that has nothing to save returns at once.  doc is the workflow's status
\* document; the handler's read of it and the read made inside
\* fetch_logs_from_kubernetes may each fail.  Each slot serves one request,
\* the slots are taken in order.
Pull(s, i, doc, status_fails, fetch_fails, out, message) ==
    /\ SlotFree(s)
    /\ LET resp  == IF status_fails THEN EngineError ELSE doc
           resp2 == IF fetch_fails THEN EngineError ELSE doc
           phase == IF resp = EngineError THEN task_runs[i].phase
                    ELSE determine_workflow_phase(resp)
           db_logs == get_logs_from_database(task_logs, i)
           k8s == fetch_logs_from_kubernetes(resp2, out, message)
           result == PullResult(db_logs, phase, k8s)
       IN  /\ task_runs' = SyncRunPhase(task_runs, i, resp)
           /\ IF result.save = <<>>
              THEN /\ pulled' = PullResponse(i, resp, phase, result)
                   /\ pulls' = [pulls EXCEPT ![s] = PullReturned]
              ELSE /\ \E hits \in Lookups(task_logs, i, result.save) :
                         pulls' = [pulls EXCEPT ![s] =
                                     [pc |-> "saving",
                                      response |->
                                         PullResponse(i, resp, phase,
                                                      result),
                                      hits |-> hits]]
                   /\ UNCHANGED pulled
    /\ UNCHANGED <<task_logs, flow_runs, workflows, req, ws>>
    /\ UNCHANGED <<opsVars, phaseVars, flowVars, pushVars, purgeVars>>

\* get_run_logs (main.py 1456-1575).
get_run_logs(s, t, n, doc, status_fails, fetch_fails, out, message) ==
    /\ SlotFree(s)
    /\ \E i \in RunIdsNumbered(task_runs, t, n) :
          Pull(s, i, doc, status_fails, fetch_fails, out, message)

\* get_task_logs (main.py 1584-1720); n = 0 stands for an absent
\* run_number and selects the latest run.
get_task_logs(s, t, n, doc, status_fails, fetch_fails, out, message) ==
    /\ SlotFree(s)
    /\ \E i \in (IF n = 0 THEN LatestRunIds(task_runs, t)
                 ELSE RunIdsNumbered(task_runs, t, n)) :
          Pull(s, i, doc, status_fails, fetch_fails, out, message)

NewLog(run_id, e) ==
    [run_id |-> run_id, node_id |-> e.node, pod_name |-> e.pod,
     phase |-> e.phase, logs |-> e.logs]

\* The writes of save_logs_to_database (main.py 512-534), entry by entry:
\* the matched row is updated, an entry without a match is inserted.
RECURSIVE ApplySave(_, _, _, _, _)
ApplySave(rows, run_id, save, hits, j) ==
    IF j > Len(save) THEN rows
    ELSE LET e == save[j]
             next == IF hits[j] = 0 THEN Append(rows, NewLog(run_id, e))
                     ELSE [rows EXCEPT ![hits[j]].phase = e.phase,
                                       ![hits[j]].logs = e.logs]
         IN  ApplySave(next, run_id, save, hits, j + 1)

\* The writes and the db.commit() of save_logs_to_database (main.py
\* 512-534, 622) of a pull, after which the pull returns.
save_logs_to_database(s) ==
    /\ pulls[s].pc = "saving"
    /\ LET rows == ApplySave(task_logs, pulls[s].response.run,
                             pulls[s].response.logs, pulls[s].hits, 1)
       IN  task_logs' = rows
    /\ pulled' = pulls[s].response
    /\ pulls' = [pulls EXCEPT ![s] = PullReturned]
    /\ UNCHANGED <<task_runs, flow_runs, workflows, req, ws>>
    /\ UNCHANGED <<opsVars, phaseVars, flowVars, pushVars, purgeVars>>

\* The status documents of a workflow with one pod, before and after it
\* finished.
LogDocs ==
    {[empty |-> FALSE, phase |-> p, nodes |-> n] :
        p \in {"Running", "Succeeded"}, n \in EngineNodeMaps}

\* Task t1 with one run just submitted.
InitLogs ==
    /\ InitPhaseIdle /\ InitFlowIdle /\ InitLogsIdle
    /\ task_runs = <<NewRun("t1", 1, 1)>>
    /\ flow_runs = <<>>
    /\ workflows = <<TRUE>>
    /\ req = [r \in Reqs |-> Idle]
    /\ ws = WsClosed

NextLogs ==
    \/ \E s \in PullSlots, t \in Tasks, doc \in LogDocs :
          \E status_fails, fetch_fails, message \in BOOLEAN,
             out \in PullPodOutcomes :
             get_run_logs(s, t, 1, doc, status_fails, fetch_fails, out,
                          message)
    \/ \E s \in PullSlots, t \in Tasks, doc \in LogDocs :
          \E status_fails, fetch_fails, message \in BOOLEAN,
             out \in PullPodOutcomes :
             get_task_logs(s, t, 0, doc, status_fails, fetch_fails, out,
                           message)
    \/ \E s \in PullSlots : save_logs_to_database(s)

SpecLogs == InitLogs /\ [][NextLogs]_vars

----------------------------------------------------------------------------
(* SpecStream: the frames of one push stream *)

\* The names the engine generated for the workflows, in submission order;
\* no task id ("task-<hex>") is such a name ("python-job-<suffix>").
WorkflowNames == <<"w1", "w2", "w3", "w4", "w5", "w6", "w7", "w8">>

\* What the path parameter of cancel_task may be.
Names == Tasks \cup {WorkflowNames[1]}

\* The workflow resources with this name.
WorkflowsNamed(name) ==
    {w \in DOMAIN workflows :
        w <= Len(WorkflowNames) /\ WorkflowNames[w] = name /\ workflows[w]}

\* cancel_task (main.py 1979-2005): the engine is asked to delete the
\* workflow whose name is the path parameter; a not-found answer becomes
\* HTTP 404, any other failure HTTP 500.  No table is read or written.
cancel_task(task_id, engine_ok) ==
    /\ delete_calls' = delete_calls \cup {task_id}
    /\ IF ~engine_ok
       THEN /\ reply' = [op |-> "cancel", id |-> task_id, status |-> 500,
                         not_found |-> FALSE]
            /\ UNCHANGED workflows
       ELSE IF WorkflowsNamed(task_id) = {}
       THEN /\ reply' = [op |-> "cancel", id |-> task_id, status |-> 404,
                         not_found |-> TRUE]
            /\ UNCHANGED workflows
       ELSE /\ reply' = [op |-> "cancel", id |-> task_id, status |-> 200,
                         not_found |-> FALSE]
            /\ workflows' = [w \in DOMAIN workflows |->
                               workflows[w] /\ w \notin WorkflowsNamed(task_id)]
    /\ UNCHANGED <<task_runs, flow_runs, req, ws>>
    /\ UNCHANGED <<tasks, flows, purge>>
    /\ UNCHANGED <<opsVars, phaseVars, flowVars, logVars, pushVars>>

\* last_logs_hash = "" (main.py 1779): no list serialises to it.
NoHash == [sent |-> FALSE]

\* json.dumps(all_logs, sort_keys=True) (main.py 1877): the entries in
\* their order, each with its four fields; two lists have the same text
\* exactly if they are the same list.
Hash(all_logs) == [sent |-> TRUE, logs |-> all_logs]

NoFrame == [type |-> "none"]

LogsFrame(data, phase) ==
    [type |-> "logs", data |-> data, workflow_phase |-> phase]

ErrorFrame == [type |-> "error"]

CompleteFrame(phase) == [type |-> "complete", workflow_phase |-> phase]

\* websocket_logs, lines 1735-1781: accept, bind to the latest run, set the
\* three memory variables.  emitted is the last logs frame sent so far.
websocket_logs(t) ==
    /\ stream.pc = "closed"
    /\ \E l \in LatestRunIds(task_runs, t) :
          stream' = [pc |-> "first", run |-> l,
                     workflow_id |-> task_runs[l].workflow_id,
                     cache |-> task_runs[l].phase,
                     last_logs_hash |-> NoHash,
                     last_sent_phase |-> "None",
                     phase |-> "None", all_logs |-> <<>>,
                     emitted |-> NoFrame]
    /\ frames' = <<>>
    /\ UNCHANGED <<opsVars, wf_doc, runVars, phaseVars, flowVars, logVars, purgeVars>>

\* What a read of the stream's workflow answers: an error if the call
\* fails or the workflow is gone.
StreamRead(fails) ==
    IF fails \/ ~workflows[stream.workflow_id] THEN EngineError ELSE wf_doc

\* `if logs_changed or phase_changed:` (main.py 1883).
Emits(logs_changed, phase_changed) == logs_changed \/ phase_changed

\* One call of fetch_and_send_logs (main.py 1784-1917), the initial one
\* (line 1921) or the loop's (line 1925).  A failure of the status read
\* is answered with an error frame and the return value ("Unknown", []).
fetch_and_send_logs(read_fails, fetch_fails, out, message) ==
    /\ stream.pc \in {"first", "poll"}
    /\ LET resp    == StreamRead(read_fails)
           next_pc == IF stream.pc = "first" THEN "poll" ELSE "test"
       IN  IF resp = EngineError
           THEN /\ frames' = <<ErrorFrame>>
                /\ stream' = [stream EXCEPT !.pc = next_pc,
                                            !.phase = "Unknown",
                                            !.all_logs = <<>>]
                /\ UNCHANGED <<task_runs, task_logs>>
           ELSE LET phase == determine_workflow_phase(resp)
                    current_phase == IF stream.cache = "expired"
                                     THEN task_runs[stream.run].phase
                                     ELSE stream.cache
                    changed == current_phase # phase
                    db_logs == get_logs_from_database(task_logs, stream.run)
                    k8s == fetch_logs_from_kubernetes(StreamRead(fetch_fails),
                                                      out, message)
                    saves == ~k8s.failed /\ k8s.logs # <<>>
                    all_logs == IF saves THEN k8s.logs ELSE db_logs
                    logs_changed == Hash(all_logs) # stream.last_logs_hash
                    phase_changed == phase # stream.last_sent_phase
                    emits == Emits(logs_changed, phase_changed)
                IN  /\ task_runs' =
                         IF changed
                         THEN [task_runs EXCEPT ![stream.run].phase = phase]
                         ELSE task_runs
                    /\ IF saves
                       THEN \E hits \in Lookups(task_logs, stream.run, k8s.logs) :
                               task_logs' = ApplySave(task_logs, stream.run,
                                                      k8s.logs, hits, 1)
                       ELSE UNCHANGED task_logs
                    /\ frames' = IF emits THEN <<LogsFrame(all_logs, phase)>>
                                 ELSE <<>>
                    /\ stream' =
                         [stream EXCEPT
                            !.pc = next_pc,
                            !.phase = phase,
                            !.all_logs = all_logs,
                            !.cache = IF changed \/ saves THEN "expired"
                                      ELSE current_phase,
                            !.last_logs_hash = IF logs_changed
                                               THEN Hash(all_logs) ELSE @,
                            !.last_sent_phase = IF phase_changed
                                                THEN phase ELSE @,
                            !.emitted = IF emits
                                        THEN LogsFrame(all_logs, phase)
                                        ELSE @]
    /\ UNCHANGED <<wf_doc, flow_runs, workflows, req, ws, pulls, pulled>>
    /\ UNCHANGED <<opsVars, phaseVars, flowVars, purgeVars>>

\* A variant of the loop's test that also takes Running for final.
IsFinishedOrRunning(phase) == phase \in TerminalPhases \cup {"Running"}

\* `if phase in ["Succeeded", "Failed", "Error"]:` (main.py 1928).
IsFinished(phase) == phase \in TerminalPhases

\* The rest of an iteration of `while True` (main.py 1927-1960): on a
\* terminal phase the final fetch, its save and frame, the complete frame
\* and the break, after which the handler returns; otherwise the sleep.
websocket_logs_loop(fetch_fails, out, message) ==
    /\ stream.pc = "test"
    /\ IF IsFinished(stream.phase)
       THEN LET final == fetch_logs_from_kubernetes(StreamRead(fetch_fails),
                                                    out, message)
                saves == ~final.failed /\ final.logs # <<>>
                final_frame == LogsFrame(final.logs, stream.phase)
            IN  /\ IF saves
                   THEN \E hits \in Lookups(task_logs, stream.run, final.logs) :
                           task_logs' = ApplySave(task_logs, stream.run,
                                                  final.logs, hits, 1)
                   ELSE UNCHANGED task_logs
                /\ frames' = IF saves
                             THEN <<final_frame, CompleteFrame(stream.phase)>>
                             ELSE <<CompleteFrame(stream.phase)>>
                /\ stream' = [stream EXCEPT
                                !.pc = "completed",
                                !.emitted = IF saves THEN final_frame ELSE @]
       ELSE /\ frames' = <<>>
            /\ stream' = [stream EXCEPT !.pc = "poll"]
            /\ UNCHANGED task_logs
    /\ UNCHANGED <<wf_doc, task_runs, flow_runs, workflows, req, ws,
                   pulls, pulled>>
    /\ UNCHANGED <<opsVars, phaseVars, flowVars, purgeVars>>

\* The client closes the connection: the next send or sleep raises
\* WebSocketDisconnect and the handler returns (main.py 1962-1964).
WebSocketDisconnect ==
    /\ stream.pc \in {"first", "poll", "test"}
    /\ stream' = [stream EXCEPT !.pc = "disconnected"]
    /\ frames' = <<>>
    /\ UNCHANGED <<opsVars, wf_doc, runVars, phaseVars, flowVars, logVars, purgeVars>>

\* The engine runs the workflow: its status document changes until the
\* top-level phase is terminal.
WorkflowProgress(doc) ==
    /\ workflows[1]
    /\ wf_doc.phase \notin TerminalPhases
    /\ doc # wf_doc
    /\ wf_doc' = doc
    /\ UNCHANGED <<stream, frames>>
    /\ UNCHANGED <<opsVars, runVars, phaseVars, flowVars, logVars, purgeVars>>

\* Task t1 with one run whose workflow the engine has started.
InitStream ==
    /\ InitPhaseIdle /\ InitFlowIdle
    /\ task_runs = <<NewRun("t1", 1, 1)>>
    /\ flow_runs = <<>>
    /\ workflows = <<TRUE>>
    /\ req = [r \in Reqs |-> Idle]
    /\ ws = WsClosed
    /\ task_logs = <<>>
    /\ pulls = [s \in PullSlots |-> PullIdle]
    /\ pulled = NoPull
    /\ stream = StreamClosed
    /\ frames = <<>>
    /\ wf_doc \in {d \in LogDocs : d.phase = "Running"}
    /\ InitPurgeIdle

NextStream ==
    \/ \E t \in Tasks : websocket_logs(t)
    \/ \E read_fails, fetch_fails, message \in BOOLEAN,
          out \in PullPodOutcomes :
          fetch_and_send_logs(read_fails, fetch_fails, out, message)
    \/ \E fetch_fails, message \in BOOLEAN, out \in PullPodOutcomes :
          websocket_logs_loop(fetch_fails, out, message)
    \/ WebSocketDisconnect
    \/ \E doc \in LogDocs : WorkflowProgress(doc)
    \/ \E name \in Names, engine_ok \in BOOLEAN : cancel_task(name, engine_ok)

SpecStream == InitStream /\ [][NextStream]_vars

\* The polling loop is scheduled again after every sleep, and a read of an
\* existing workflow does not fail forever.
FetchAnswered ==
    \E fetch_fails, message \in BOOLEAN, out \in PullPodOutcomes :
       fetch_and_send_logs(FALSE, fetch_fails, out, message)

SpecStreamFair ==
    /\ SpecStream
    /\ SF_vars(FetchAnswered)
    /\ WF_vars(\E fetch_fails, message \in BOOLEAN, out \in PullPodOutcomes :
                  websocket_logs_loop(fetch_fails, out, message))

----------------------------------------------------------------------------
(* SpecPurge: cancel and purge beside run_task and the polls *)

\* A deleted row: its id is not given to another row.
DeletedRun ==
    [owner |-> "deleted", workflow_id |-> 0, run_number |-> 0,
     phase |-> "deleted"]

DeletedLog ==
    [run_id |-> 0, node_id |-> "deleted", pod_name |-> "deleted",
     phase |-> "deleted", logs |-> "deleted"]

DeleteRuns(runs, ids) ==
    [i \in DOMAIN runs |-> IF i \in ids THEN DeletedRun ELSE runs[i]]

\* `DELETE FROM task_logs WHERE run_id = :run_id` for every run of ids.
DeleteLogs(rows, ids) ==
    [k \in DOMAIN rows |->
        IF rows[k].run_id \in ids THEN DeletedLog ELSE rows[k]]

\* What the engine may answer to a delete.
DeleteOutcomes == {"deleted", "not_found", "failed"}

\* delete_task, lines 2022-2047: look the task up and list its runs.
delete_task(t) ==
    /\ purge.pc = "idle"
    /\ IF t \notin tasks
       THEN /\ reply' = [op |-> "delete_task", id |-> t, status |-> 404,
                         not_found |-> FALSE, store_ok |-> TRUE]
            /\ UNCHANGED purge
       ELSE /\ purge' = [pc |-> "listed", id |-> t,
                         runs |-> RunIdsOf(task_runs, t),
                         not_found |-> FALSE]
            /\ UNCHANGED reply
    /\ UNCHANGED <<tasks, flows, delete_calls>>
    /\ UNCHANGED <<opsVars, runVars, phaseVars, flowVars, logVars, pushVars>>

\* The answers the engine may give to the deletes of the listed runs'
\* workflows: not-found exactly for a workflow that is gone.
DeleteAnswers(runs) ==
    {o \in [runs -> DeleteOutcomes] :
        \A i \in runs :
           /\ o[i] = "deleted" => workflows[task_runs[i].workflow_id]
           /\ o[i] = "not_found" <=> ~workflows[task_runs[i].workflow_id]}

\* delete_task, lines 2049-2068: one delete per listed run; every failure
\* is swallowed, a not-found silently.
delete_task_workflows ==
    /\ purge.pc = "listed"
    /\ \E outcome \in DeleteAnswers(purge.runs) :
         /\ workflows' =
              [w \in DOMAIN workflows |->
                  /\ workflows[w]
                  /\ ~\E i \in purge.runs : /\ task_runs[i].workflow_id = w
                                            /\ outcome[i] = "deleted"]
         /\ purge' = [purge EXCEPT
                        !.pc = "engine_done",
                        !.not_found = \E i \in purge.runs :
                                         outcome[i] = "not_found"]
    /\ delete_calls' = delete_calls \cup
          {WorkflowNames[task_runs[i].workflow_id] : i \in purge.runs}
    /\ UNCHANGED <<task_runs, flow_runs, req, ws>>
    /\ UNCHANGED <<tasks, flows, reply>>
    /\ UNCHANGED <<opsVars, phaseVars, flowVars, logVars, pushVars>>

\* delete_task, lines 2070-2129: the logs and rows of the listed runs and
\* the task's row are deleted in one transaction; deleting the task's row
\* takes the runs that reference it, and their logs, with it (ON DELETE
\* CASCADE, database.py 51, 76).  A failure rolls the transaction back and
\* is answered with HTTP 500.
delete_task_rows(db_ok) ==
    /\ purge.pc = "engine_done"
    /\ IF db_ok
       THEN LET gone == purge.runs \cup RunIdsOf(task_runs, purge.id)
            IN  /\ task_logs' = DeleteLogs(task_logs, gone)
                /\ task_runs' = DeleteRuns(task_runs, gone)
                /\ tasks' = tasks \ {purge.id}
       ELSE UNCHANGED <<task_logs, task_runs, tasks>>
    /\ reply' = [op |-> "delete_task", id |-> purge.id,
                 status |-> IF db_ok THEN 200 ELSE 500,
                 not_found |-> purge.not_found, store_ok |-> db_ok]
    /\ purge' = PurgeIdle
    /\ UNCHANGED <<flow_runs, workflows, req, ws, pulls, pulled>>
    /\ UNCHANGED <<flows, delete_calls>>
    /\ UNCHANGED <<opsVars, phaseVars, flowVars, pushVars>>

\* delete_flow (main.py 2885-2905): db.delete(flow) removes the flow's row
\* and, through the relationships' cascade (database.py 104, 123), its
\* runs with their step runs and step logs; the engine is not called.
delete_flow(f, db_ok) ==
    /\ purge.pc = "idle"
    /\ IF f \notin flows
       THEN /\ reply' = [op |-> "delete_flow", id |-> f, status |-> 404,
                         not_found |-> FALSE, store_ok |-> TRUE]
            /\ UNCHANGED <<flows, flow_runs>>
       ELSE IF db_ok
       THEN /\ flows' = flows \ {f}
            /\ flow_runs' = DeleteRuns(flow_runs, RunIdsOf(flow_runs, f))
            /\ reply' = [op |-> "delete_flow", id |-> f, status |-> 200,
                         not_found |-> FALSE, store_ok |-> TRUE]
       ELSE /\ reply' = [op |-> "delete_flow", id |-> f, status |-> 500,
                         not_found |-> FALSE, store_ok |-> FALSE]
            /\ UNCHANGED <<flows, flow_runs>>
    /\ UNCHANGED <<task_runs, workflows, req, ws>>
    /\ UNCHANGED <<tasks, purge, delete_calls>>
    /\ UNCHANGED <<opsVars, phaseVars, flowVars, logVars, pushVars>>

\* What the engine answers to a poll of run row i: an error if the run's
\* workflow is gone.
PollAnswer(i, resp) ==
    IF workflows[task_runs[i].workflow_id] THEN resp ELSE EngineError

\* get_run_logs (main.py 1456-1539), the run's phase, the engine answering
\* for the workflow as it is.
get_run_logs_phase(t, n, resp) ==
    /\ \E i \in RunIdsNumbered(task_runs, t, n) :
          task_runs' = SyncRunPhase(task_runs, i, PollAnswer(i, resp))
    /\ UNCHANGED <<flow_runs, workflows, req, ws>>
    /\ UNCHANGED <<opsVars, phaseVars, flowVars, logVars, pushVars, purgeVars>>

\* list_tasks (main.py 1237-1337), the engine answering for the workflows
\* as they are.
list_tasks(latest, resp) ==
    /\ TasksWithRuns # {}
    /\ \A t \in TasksWithRuns : latest[t] \in LatestRunIds(task_runs, t)
    /\ task_runs' =
         [i \in DOMAIN task_runs |->
             IF task_runs[i].owner \in TasksWithRuns
                /\ latest[task_runs[i].owner] = i
             THEN SyncRunPhase(task_runs, i,
                               PollAnswer(i, resp[task_runs[i].owner]))[i]
             ELSE task_runs[i]]
    /\ UNCHANGED <<flow_runs, workflows, req, ws>>
    /\ UNCHANGED <<opsVars, phaseVars, flowVars, logVars, pushVars, purgeVars>>

\* The status documents the polls of this specification are answered with.
PollDocs == {EngineError} \cup {d \in LogDocs : DOMAIN d.nodes # {}}

\* Task t1 with one run and one stored log row, flow f1 with one run; both
\* workflows are in the engine.
InitPurge ==
    /\ InitPhaseIdle /\ InitFlowIdle
    /\ task_runs = <<NewRun("t1", 1, 1)>>
    /\ flow_runs = <<NewRun("f1", 2, 1)>>
    /\ workflows = <<TRUE, TRUE>>
    /\ req = [r \in Reqs |-> Idle]
    /\ ws = WsClosed
    /\ task_logs = <<NewLog(1, LogEntry("n1", "p1", "Pending", "line"))>>
    /\ pulls = [s \in PullSlots |-> PullIdle]
    /\ pulled = NoPull
    /\ stream = StreamClosed
    /\ frames = <<>>
    /\ wf_doc = NoStatus
    /\ InitPurgeIdle

NextPurge ==
    \/ \E t \in Tasks : RunTaskCheck(1, t)
    \/ \E ok \in BOOLEAN : RunTaskSubmit(1, ok)
    \/ RunTaskNumber(1)
    \/ RunTaskInsert(1)
    \/ \E t \in Tasks, engine_ok \in BOOLEAN : cancel_task(t, engine_ok)
    \/ \E t \in Tasks : delete_task(t)
    \/ delete_task_workflows
    \/ \E db_ok \in BOOLEAN : delete_task_rows(db_ok)
    \/ \E f \in Flows, db_ok \in BOOLEAN : delete_flow(f, db_ok)
    \/ \E t \in Tasks, n \in 1..MaxReq, resp \in PollDocs :
          get_run_logs_phase(t, n, resp)
    \/ \E latest \in [TasksWithRuns -> DOMAIN task_runs],
          resp \in [TasksWithRuns -> PollDocs] :
          list_tasks(latest, resp)

SpecPurge == InitPurge /\ [][NextPurge]_vars

----------------------------------------------------------------------------
(* SpecPod: the Volume Helper Pod Manager (PersistentPVPod) *)

\* max_wait of create_pod (main.py 230): 60 polls one second apart in the
\* source, scaled down.
max_wait == 3

\* The outcomes of delete_namespaced_pod: the pod is gone at once, it is
\* marked for deletion and stays for its grace period, or the call fails.
PodDeleteOutcomes == {"deleted", "terminating", "failed"}

\* What ensure_ready (main.py 264-265) and the wait loop of create_pod
\* (main.py 235-241) test: phase Running and the first container ready.
IsReady(p) == p.present /\ p.phase = "Running" /\ p.ready

\* The pod create_namespaced_pod makes (main.py 225).
NewPod ==
    [present |-> TRUE, phase |-> "Pending", ready |-> FALSE,
     terminating |-> FALSE, observed |-> FALSE]

\* delete_namespaced_pod inside `try: ... except: pass` (main.py 268-271,
\* 276-279, 304-307): every failure, not-found included, is swallowed.
delete_namespaced_pod(p, outcome) ==
    IF ~p.present THEN p
    ELSE IF outcome = "deleted" THEN PodAbsent
    ELSE IF outcome = "terminating" THEN [p EXCEPT !.terminating = TRUE]
    ELSE p

\* Where create_pod returns to: lifespan (main.py 33) or exec_command.
AfterCreate == IF mgr.op = "lifespan" THEN "done" ELSE "exec"

\* lifespan (main.py 30-36): at startup the manager is made and create_pod
\* is called.
lifespan ==
    /\ mgr.pc = "idle"
    /\ ops' = [ops EXCEPT
          !.mgr = [mgr EXCEPT !.pc = "create", !.op = "lifespan"]]
    /\ UNCHANGED <<runVars, phaseVars, flowVars, logVars, pushVars, purgeVars>>

\* exec_command (main.py 282-284): a file operation asks for a command to
\* be run in the pod; the call starts with ensure_ready.
exec_command ==
    /\ mgr.pc \in {"done", "failed"}
    /\ ops' = [ops EXCEPT
          !.mgr = [mgr EXCEPT !.pc = "ensure", !.op = "exec_command",
                              !.execs = 0, !.waited = 0,
                              !.recreate_pending = FALSE]]
    /\ UNCHANGED <<runVars, phaseVars, flowVars, logVars, pushVars, purgeVars>>

\* ensure_ready (main.py 256-280).  With the flag cleared create_pod is
\* called at once; otherwise the pod is read, and a pod that is not Running
\* and ready, or a read that raises (absent pod included), clears the flag,
\* deletes the pod and calls create_pod.
ensure_ready(read_ok, outcome) ==
    /\ mgr.pc = "ensure"
    /\ IF ~mgr.pod_ready
       THEN /\ ops' = [ops EXCEPT !.mgr = [mgr EXCEPT !.pc = "create"]]
       ELSE IF read_ok /\ IsReady(pv_pod)
       THEN /\ ops' = [ops EXCEPT
                  !.mgr = [mgr EXCEPT !.pc = "exec"],
                  !.pv_pod = [pv_pod EXCEPT !.observed = TRUE]]
       ELSE /\ ops' = [ops EXCEPT
                  !.mgr = [mgr EXCEPT !.pc = "create", !.pod_ready = FALSE,
                                      !.recreate_pending = TRUE],
                  !.pv_pod = delete_namespaced_pod(pv_pod, outcome)]
    /\ UNCHANGED <<runVars, phaseVars, flowVars, logVars, pushVars, purgeVars>>

\* create_pod up to its wait loop (main.py 177-231).  A pod read as Running
\* or Pending sets the flag and returns; otherwise the pod is created, and
\* a create that raises (the name is taken, or the call fails) clears the
\* flag and fails the caller.
create_pod(read_ok, create_ok) ==
    /\ mgr.pc = "create"
    /\ IF read_ok /\ pv_pod.present /\ pv_pod.phase \in {"Running", "Pending"}
       THEN /\ ops' = [ops EXCEPT
                  !.mgr = [mgr EXCEPT !.pc = AfterCreate, !.pod_ready = TRUE]]
       ELSE IF pv_pod.present \/ ~create_ok
       THEN /\ ops' = [ops EXCEPT
                  !.mgr = [mgr EXCEPT !.pc = "failed", !.pod_ready = FALSE]]
       ELSE /\ ops' = [ops EXCEPT
                  !.mgr = [mgr EXCEPT !.pc = "wait", !.waited = 0,
                                      !.recreate_pending = FALSE],
                  !.pv_pod = NewPod]
    /\ UNCHANGED <<runVars, phaseVars, flowVars, logVars, pushVars, purgeVars>>

\* One round of the wait loop of create_pod (main.py 232-246): a pod read
\* as Running with its container ready sets the flag and returns; after
\* max_wait rounds the flag is cleared and the caller fails.
create_pod_wait(read_ok) ==
    /\ mgr.pc = "wait"
    /\ mgr.waited < max_wait
    /\ IF read_ok /\ IsReady(pv_pod)
       THEN /\ ops' = [ops EXCEPT
                  !.mgr = [mgr EXCEPT !.pc = AfterCreate, !.pod_ready = TRUE],
                  !.pv_pod = [pv_pod EXCEPT !.observed = TRUE]]
       ELSE /\ ops' = [ops EXCEPT
                  !.mgr = [mgr EXCEPT
                              !.waited = @ + 1,
                              !.pc = IF mgr.waited + 1 < max_wait THEN "wait"
                                     ELSE "failed",
                              !.pod_ready = IF mgr.waited + 1 < max_wait
                                            THEN @ ELSE FALSE]]
    /\ UNCHANGED <<runVars, phaseVars, flowVars, logVars, pushVars, purgeVars>>

\* One exec attempt of exec_command (main.py 286-320).  The first attempt
\* that raises clears the flag, deletes the pod and calls create_pod; the
\* second attempt is outside any try, so its failure reaches the caller.
exec_attempt(exec_ok, outcome) ==
    /\ mgr.pc = "exec"
    /\ IF exec_ok /\ IsReady(pv_pod)
       THEN /\ ops' = [ops EXCEPT
                  !.mgr = [mgr EXCEPT !.pc = "done", !.execs = @ + 1]]
       ELSE IF mgr.execs = 0
       THEN /\ ops' = [ops EXCEPT
                  !.mgr = [mgr EXCEPT !.pc = "create", !.execs = 1,
                                      !.pod_ready = FALSE,
                                      !.recreate_pending = TRUE],
                  !.pv_pod = delete_namespaced_pod(pv_pod, outcome)]
       ELSE /\ ops' = [ops EXCEPT
                  !.mgr = [mgr EXCEPT !.pc = "failed", !.execs = @ + 1]]
    /\ UNCHANGED <<runVars, phaseVars, flowVars, logVars, pushVars, purgeVars>>

\* The cluster: a Pending pod starts.
PodStarts ==
    /\ pv_pod.present /\ pv_pod.phase = "Pending"
    /\ ops' = [ops EXCEPT
          !.pv_pod = [pv_pod EXCEPT !.phase = "Running", !.ready = TRUE]]
    /\ UNCHANGED <<runVars, phaseVars, flowVars, logVars, pushVars, purgeVars>>

\* The cluster: the container of a Running pod stops (it is restarted under
\* restartPolicy Always) or the pod fails as a whole.
PodDegrades(phase) ==
    /\ IsReady(pv_pod)
    /\ ops' = [ops EXCEPT
          !.pv_pod = [pv_pod EXCEPT !.phase = phase, !.ready = FALSE]]
    /\ UNCHANGED <<runVars, phaseVars, flowVars, logVars, pushVars, purgeVars>>

PodRestarts ==
    /\ pv_pod.present /\ pv_pod.phase = "Running" /\ ~pv_pod.ready
    /\ ops' = [ops EXCEPT !.pv_pod = [pv_pod EXCEPT !.ready = TRUE]]
    /\ UNCHANGED <<runVars, phaseVars, flowVars, logVars, pushVars, purgeVars>>

\* The cluster: a pod marked for deletion goes once its grace period ends.
PodRemoved ==
    /\ pv_pod.present /\ pv_pod.terminating
    /\ ops' = [ops EXCEPT !.pv_pod = PodAbsent]
    /\ UNCHANGED <<runVars, phaseVars, flowVars, logVars, pushVars, purgeVars>>

InitPod == InitRun /\ InitPhaseIdle /\ InitFlowIdle

NextPod ==
    \/ lifespan
    \/ exec_command
    \/ \E read_ok \in BOOLEAN, outcome \in PodDeleteOutcomes :
          ensure_ready(read_ok, outcome)
    \/ \E read_ok, create_ok \in BOOLEAN : create_pod(read_ok, create_ok)
    \/ \E read_ok \in BOOLEAN : create_pod_wait(read_ok)
    \/ \E exec_ok \in BOOLEAN, outcome \in PodDeleteOutcomes :
          exec_attempt(exec_ok, outcome)
    \/ PodStarts
    \/ \E phase \in {"Running", "Failed"} : PodDegrades(phase)
    \/ PodRestarts
    \/ PodRemoved

SpecPod == InitPod /\ [][NextPod]_vars

----------------------------------------------------------------------------
(* SpecFiles: the path policy of the file operations *)

\* A path is a sequence of tokens, each standing for the characters of its
\* name; no token is a prefix of another, so a prefix of characters is a
\* prefix of tokens.  "-x" continues a name ("results" "-x" is the name
\* results-x) or is a name of its own.
PathTokens == {"/", "mnt", "results", "-x", ".."}

ResultMount == <<"/", "mnt", "/", "results">>

ParentMount == <<"/", "mnt">>

PathHeads == {<<>>, ParentMount, ResultMount}

PathTails == UNION {[1..n -> PathTokens] : n \in 0..MaxTail}

Paths == {h \o t : h \in PathHeads, t \in PathTails}

\* str.startswith
startswith(path, prefix) ==
    /\ Len(path) >= Len(prefix)
    /\ SubSeq(path, 1, Len(prefix)) = prefix

\* str.endswith for a one-character suffix
endswith(path, token) == path # <<>> /\ path[Len(path)] = token

\* str.lstrip('/')
RECURSIVE lstrip(_)
lstrip(path) ==
    IF path # <<>> /\ path[1] = "/" THEN lstrip(Tail(path)) ELSE path

\* The names between the slashes of a path, each a sequence of tokens.
RECURSIVE SplitPath(_, _, _)
SplitPath(path, cur, acc) ==
    IF path = <<>> THEN Append(acc, cur)
    ELSE IF path[1] = "/" THEN SplitPath(Tail(path), <<>>, Append(acc, cur))
    ELSE SplitPath(Tail(path), Append(cur, path[1]), acc)

\* The directory a list of names leads to from the root: an empty name
\* stays, ".." goes up.
RECURSIVE ResolveNames(_, _)
ResolveNames(names, at) ==
    IF names = <<>> THEN at
    ELSE LET n == names[1]
             next == IF n = <<>> THEN at
                     ELSE IF n = <<"..">>
                     THEN (IF at = <<>> THEN at
                           ELSE SubSeq(at, 1, Len(at) - 1))
                     ELSE Append(at, n)
         IN  ResolveNames(Tail(names), next)

\* The path is absolute and names the result mount /mnt/results or a file
\* or directory below it.
UnderResultMount(path) ==
    /\ path # <<>> /\ path[1] = "/"
    /\ LET at == ResolveNames(SplitPath(path, <<>>, <<>>), <<>>)
       IN  /\ Len(at) >= 2
           /\ at[1] = <<"mnt">>
           /\ at[2] = <<"results">>

\* The name of the uploaded file and the two fixed paths a copy request
\* pairs the varying path with.
UploadName == <<"-x">>

CopyOthers == {ResultMount \o <<"/", "-x">>, ParentMount}

FileOps == {"list", "read", "preview", "upload"}

\* HTTPException(status_code=400) before the helper pod is used.
Rejected == [status |-> 400, paths |-> <<>>]

\* The handler went on to exec_command with these paths in its script.
Executed(paths) == [status |-> 200, paths |-> paths]

\* A client sends a file operation.
FileRequest ==
    /\ file_req = NoFileReq
    /\ \/ \E o \in FileOps, q \in Paths :
             ops' = [ops EXCEPT
                !.file_req = [op |-> o, path |-> q, other |-> <<>>]]
       \/ \E q \in Paths, o \in CopyOthers :
             \/ ops' = [ops EXCEPT
                   !.file_req = [op |-> "copy", path |-> q, other |-> o]]
             \/ ops' = [ops EXCEPT
                   !.file_req = [op |-> "copy", path |-> o, other |-> q]]
    /\ UNCHANGED <<runVars, phaseVars, flowVars, logVars, pushVars, purgeVars>>

\* list_pv_files (main.py 2138-2152): the path check.
list_pv_files ==
    /\ file_req.op = "list" /\ file_out = NoFileOut
    /\ ops' = [ops EXCEPT
          !.file_out = IF ~(file_req.path = ParentMount
                            \/ startswith(file_req.path, ResultMount))
                       THEN Rejected ELSE Executed(<<file_req.path>>)]
    /\ UNCHANGED <<runVars, phaseVars, flowVars, logVars, pushVars, purgeVars>>

\* read_pv_file (main.py 2260-2273).
read_pv_file ==
    /\ file_req.op = "read" /\ file_out = NoFileOut
    /\ ops' = [ops EXCEPT
          !.file_out = IF ~startswith(file_req.path, ResultMount)
                       THEN Rejected ELSE Executed(<<file_req.path>>)]
    /\ UNCHANGED <<runVars, phaseVars, flowVars, logVars, pushVars, purgeVars>>

\* preview_pv_file (main.py 2361-2378).
preview_pv_file ==
    /\ file_req.op = "preview" /\ file_out = NoFileOut
    /\ ops' = [ops EXCEPT
          !.file_out = IF ~(file_req.path = ParentMount
                            \/ startswith(file_req.path, ResultMount))
                       THEN Rejected ELSE Executed(<<file_req.path>>)]
    /\ UNCHANGED <<runVars, phaseVars, flowVars, logVars, pushVars, purgeVars>>

\* copy_pv_file (main.py 2513-2534); path is source_path, other is
\* destination_path.
copy_pv_file ==
    /\ file_req.op = "copy" /\ file_out = NoFileOut
    /\ ops' = [ops EXCEPT
          !.file_out = IF \/ ~startswith(file_req.path, ResultMount)
                          \/ ~startswith(file_req.other, ResultMount)
                       THEN Rejected
                       ELSE Executed(<<file_req.path, file_req.other>>)]
    /\ UNCHANGED <<runVars, phaseVars, flowVars, logVars, pushVars, purgeVars>>

\* upload_pv_file (main.py 2548-2595): the destination directory and the
\* final path the existence test and the write use.
upload_final_path(path, filename) ==
    LET dest_path == IF startswith(path, ResultMount) THEN path
                     ELSE ResultMount \o <<"/">> \o lstrip(path)
    IN  IF endswith(dest_path, "/") THEN dest_path \o filename
        ELSE dest_path \o <<"/">> \o filename

\* upload_pv_file (main.py 2548-2595): the path check.
upload_pv_file_path ==
    /\ file_req.op = "upload" /\ file_out = NoFileOut
    /\ ops' = [ops EXCEPT
          !.file_out = IF /\ ~startswith(file_req.path, ResultMount)
                          /\ startswith(file_req.path, <<"/">>)
                       THEN Rejected
                       ELSE Executed(<<upload_final_path(file_req.path,
                                                         UploadName)>>)]
    /\ UNCHANGED <<runVars, phaseVars, flowVars, logVars, pushVars, purgeVars>>

InitFiles == InitRun /\ InitPhaseIdle /\ InitFlowIdle

NextFiles ==
    \/ FileRequest
    \/ list_pv_files
    \/ read_pv_file
    \/ preview_pv_file
    \/ copy_pv_file
    \/ upload_pv_file_path

SpecFiles == InitFiles /\ [][NextFiles]_vars

----------------------------------------------------------------------------
(* SpecUpload: concurrent uploads of one filename into one directory *)

\* pv_files[0] is the file <filename> of the directory, pv_files[n] the
\* file <base>_<n><extension> (main.py 2601-2605); "none" is an absent
\* file, "old" a file that was there before the uploads.
UploadSlots == 1..MaxUploads

\* The bytes of the uploads, different for each request.
UploadContents == <<"c1", "c2", "c3", "c4">>

\* A file written to the directory before the uploads, by a workflow or an
\* earlier upload; the names are filled from the plain one upwards.
ExistingFile(n) ==
    /\ \A u \in UploadSlots : uploads[u].pc = "idle"
    /\ n + MaxUploads <= MaxSuffix
    /\ pv_files[n] = "none"
    /\ \A k \in 0..(n - 1) : pv_files[k] # "none"
    /\ ops' = [ops EXCEPT !.pv_files = [pv_files EXCEPT ![n] = "old"]]
    /\ UNCHANGED <<runVars, phaseVars, flowVars, logVars, pushVars, purgeVars>>

\* upload_pv_file (main.py 2548-2590): an upload of the filename arrives
\* and its path is accepted; the first name to test is the plain one.
upload_pv_file(u) ==
    /\ uploads[u].pc = "idle"
    /\ \A q \in UploadSlots : q < u => uploads[q].pc # "idle"
    /\ ops' = [ops EXCEPT
          !.uploads = [uploads EXCEPT ![u] = [pc |-> "check", counter |-> 0]]]
    /\ UNCHANGED <<runVars, phaseVars, flowVars, logVars, pushVars, purgeVars>>

\* One `test -f` of upload_pv_file (main.py 2593-2612): a name that exists
\* moves the counter on, the first name that does not exist becomes the
\* final path.
upload_check(u) ==
    /\ uploads[u].pc = "check"
    /\ IF pv_files[uploads[u].counter] # "none"
       THEN /\ uploads[u].counter < MaxSuffix
            /\ ops' = [ops EXCEPT
                  !.uploads = [uploads EXCEPT ![u].counter = @ + 1]]
       ELSE ops' = [ops EXCEPT
               !.uploads = [uploads EXCEPT
                               ![u] = [pc |-> "write",
                                       final_path |-> uploads[u].counter]]]
    /\ UNCHANGED <<runVars, phaseVars, flowVars, logVars, pushVars, purgeVars>>

\* The rest of upload_pv_file (main.py 2614-2714): after `await
\* file.read()` the decode script opens the final path with mode 'wb' and
\* writes the bytes; a failing script answers 500.
upload_write(u, ok) ==
    /\ uploads[u].pc = "write"
    /\ IF ok
       THEN /\ ops' = [ops EXCEPT
                  !.pv_files = [pv_files EXCEPT
                                   ![uploads[u].final_path] = UploadContents[u]],
                  !.uploads = [uploads EXCEPT
                                  ![u] = [pc |-> "done", status |-> 200,
                                          final_path |-> uploads[u].final_path]]]
       ELSE /\ ops' = [ops EXCEPT
                  !.uploads = [uploads EXCEPT
                                  ![u] = [pc |-> "done", status |-> 500,
                                          final_path |-> uploads[u].final_path]]]
    /\ UNCHANGED <<runVars, phaseVars, flowVars, logVars, pushVars, purgeVars>>

InitUpload == InitRun /\ InitPhaseIdle /\ InitFlowIdle

NextUpload ==
    \/ \E n \in 0..MaxSuffix : ExistingFile(n)
    \/ \E u \in UploadSlots : upload_pv_file(u)
    \/ \E u \in UploadSlots : upload_check(u)
    \/ \E u \in UploadSlots, ok \in BOOLEAN : upload_write(u, ok)

SpecUpload == InitUpload /\ [][NextUpload]_vars

----------------------------------------------------------------------------
(* SpecVolumes: the volume claims verified before a submission *)

PvcNames == {"task-results-pvc", "uv-cache-pvc", "nix-store-pvc"}

\* required_pvcs (main.py 875-877, workflow_hera.py 519-521).
required_pvcs(use_cache) ==
    IF use_cache THEN <<"task-results-pvc", "uv-cache-pvc", "nix-store-pvc">>
    ELSE <<"task-results-pvc">>

\* The claims the volumes of a single-task manifest name (workflow_hera.py
\* 549-568).
task_volumes(use_cache) ==
    IF use_cache THEN PvcNames ELSE {"task-results-pvc"}

\* The claims the volumes of a flow manifest name (workflow_hera_flow.py
\* 590-612): use_cache is the constant True.
flow_volumes == PvcNames

\* The answers of read_namespaced_persistent_volume_claim to one round of
\* reads, one per claim name.
PvcAnswers == [PvcNames -> PvcStatuses]

\* The loop over the claims (main.py 879-902, workflow_hera.py 523-541,
\* workflow_hera_flow.py 511-530): a claim that is not Bound or not found
\* raises the validation error; a read that fails otherwise is logged and
\* the loop goes on.
pvc_check_raises(required, answers) ==
    \E i \in DOMAIN required : answers[required[i]] \in {"Pending", "NotFound"}

\* The claims a round of reads found Bound.
FoundBound(required, answers) ==
    {required[i] : i \in {j \in DOMAIN required : answers[required[j]] = "Bound"}}

\* create_workflow_with_hera (workflow_hera.py 489-700): its own round of
\* reads, then the manifest with its volumes, then the submission.  reads
\* keeps what the last round of reads answered.
HeraSubmission(kind, use_cache, verified, answers, engine_ok) ==
    IF pvc_check_raises(required_pvcs(use_cache), answers)
    THEN [kind |-> kind, pc |-> "done", outcome |-> "rejected",
          reads |-> answers, use_cache |-> use_cache,
          mounts |-> {},
          verified |-> verified]
    ELSE [kind |-> kind, pc |-> "done",
          outcome |-> IF engine_ok THEN "submitted" ELSE "engine_error",
          reads |-> answers, use_cache |-> use_cache,
          mounts |-> task_volumes(use_cache),
          verified |-> verified
                         \cup FoundBound(required_pvcs(use_cache), answers)]

\* create_and_submit_workflow up to its call of create_workflow_with_hera
\* (main.py 853-902), as run_task calls it.
create_and_submit_workflow(use_cache, answers) ==
    /\ submission = NoSubmission
    /\ ops' = [ops EXCEPT
          !.submission =
             IF pvc_check_raises(required_pvcs(use_cache), answers)
             THEN [kind |-> "task", pc |-> "done", outcome |-> "rejected",
                   reads |-> answers, use_cache |-> use_cache,
             mounts |-> {}, verified |-> {}]
             ELSE [kind |-> "task", pc |-> "hera", outcome |-> "none",
                   reads |-> answers, use_cache |-> use_cache,
             mounts |-> {},
                   verified |-> FoundBound(required_pvcs(use_cache), answers)]]
    /\ UNCHANGED <<runVars, phaseVars, flowVars, logVars, pushVars, purgeVars>>

\* create_workflow_with_hera as called by create_and_submit_workflow
\* (main.py 905-912).
create_workflow_with_hera(answers, engine_ok) ==
    /\ submission # NoSubmission
    /\ submission.pc = "hera"
    /\ ops' = [ops EXCEPT
          !.submission = HeraSubmission("task", submission.use_cache,
                                        submission.verified, answers, engine_ok)]
    /\ UNCHANGED <<runVars, phaseVars, flowVars, logVars, pushVars, purgeVars>>

\* run_flow_step (main.py 3044-3075): create_workflow_with_hera with its
\* default use_cache=True, without create_and_submit_workflow before it.
run_flow_step(answers, engine_ok) ==
    /\ submission = NoSubmission
    /\ ops' = [ops EXCEPT
          !.submission = HeraSubmission("step", TRUE, {}, answers, engine_ok)]
    /\ UNCHANGED <<runVars, phaseVars, flowVars, logVars, pushVars, purgeVars>>

\* create_flow_workflow_with_hera as called by run_flow, for a definition
\* that passes its validation: only task-results-pvc is read
\* (workflow_hera_flow.py 509-530), the manifest names all three claims
\* (590-627).
run_flow_volumes(answers, engine_ok) ==
    /\ submission = NoSubmission
    /\ ops' = [ops EXCEPT
          !.submission =
             IF pvc_check_raises(<<"task-results-pvc">>, answers)
             THEN [kind |-> "flow", pc |-> "done", outcome |-> "rejected",
                   reads |-> answers, use_cache |-> TRUE,
                   mounts |-> {}, verified |-> {}]
             ELSE [kind |-> "flow", pc |-> "done",
                   outcome |-> IF engine_ok THEN "submitted"
                               ELSE "engine_error",
                   reads |-> answers, use_cache |-> TRUE,
                   mounts |-> flow_volumes,
                   verified |-> FoundBound(<<"task-results-pvc">>, answers)]]
    /\ UNCHANGED <<runVars, phaseVars, flowVars, logVars, pushVars, purgeVars>>

InitVolumes == InitRun /\ InitPhaseIdle /\ InitFlowIdle

NextVolumes ==
    \/ \E use_cache \in BOOLEAN, answers \in PvcAnswers :
          create_and_submit_workflow(use_cache, answers)
    \/ \E answers \in PvcAnswers, engine_ok \in BOOLEAN :
          create_workflow_with_hera(answers, engine_ok)
    \/ \E answers \in PvcAnswers, engine_ok \in BOOLEAN :
          run_flow_step(answers, engine_ok)
    \/ \E answers \in PvcAnswers, engine_ok \in BOOLEAN :
          run_flow_volumes(answers, engine_ok)

SpecVolumes == InitVolumes /\ [][NextVolumes]_vars

----------------------------------------------------------------------------
(* The bootstrap script and the template of a single task *)

\* A script is a sequence of lines.  Each block of fixed lines that
\* build_script_source appends is one line here, named by a line of the
\* block; the lines of the requirements file are the caller's.
NixCheckBlock == <<"# Install system dependencies using nix-portable">>

NixStoreBlock == <<"export NP_STORE=~/.nix-portable/nix/store">>

NixPackagesBlock == <<"for dep in $SYSTEM_DEPS; do">>

UvInstallBlock == <<"# Install uv if not present">>

UvCacheBlock == <<"export UV_CACHE_DIR=/root/.cache/uv">>

VenvBlock == <<"# Create isolated virtual environment">>

HereDocHead == "cat > /tmp/requirements.txt << 'REQ_EOF'"

HereDocEnd == "REQ_EOF"

RequirementsInstallBlock == <<"uv pip install -r /tmp/requirements.txt">>

PythonDepsBlock == <<"echo $PYTHON_DEPS | tr ',' ' ' | xargs uv pip install">>

ExecuteBlock == <<"# Execute Python code">>

\* build_script_source (workflow_hera.py 20-486); requirements_file is a
\* sequence of lines, <<>> for None or "".
build_script_source(dependencies, requirements_file, system_dependencies, use_cache) ==
    <<"set -e">>
    \o (IF system_dependencies # <<>>
        THEN NixCheckBlock
             \o (IF use_cache THEN NixStoreBlock ELSE <<>>)
             \o NixPackagesBlock
        ELSE <<>>)
    \o UvInstallBlock
    \o (IF use_cache THEN UvCacheBlock ELSE <<>>)
    \o VenvBlock
    \o (IF requirements_file # <<>>
        THEN <<HereDocHead>> \o requirements_file \o <<HereDocEnd>>
             \o RequirementsInstallBlock
        ELSE IF dependencies # <<>> THEN PythonDepsBlock
        ELSE <<>>)
    \o ExecuteBlock

\* `bool(dependencies or requirements_file or system_dependencies)`
\* (workflow_hera.py 546).  A variant that leaves out the system
\* dependencies.
has_dependencies_python_only(dependencies, requirements_file, system_dependencies) ==
    dependencies # <<>> \/ requirements_file # <<>>

\* `bool(dependencies or requirements_file or system_dependencies)`
\* (workflow_hera.py 546).
has_dependencies(dependencies, requirements_file, system_dependencies) ==
    \/ dependencies # <<>>
    \/ requirements_file # <<>>
    \/ system_dependencies # <<>>

\* The environment of the template (workflow_hera.py 593-613): a function
\* from the names set to their values.
\* The names of the volume mounts of the template (workflow_hera.py
\* 565-582): the result volume, and the two cache volumes under use_cache.
volume_mounts(use_cache) ==
    {"task-results"} \cup (IF use_cache THEN {"uv-cache", "nix-store"} ELSE {})

template_env(python_code, dependencies, requirements_file, system_dependencies) ==
    LET base == [n \in {"ARGO_WORKFLOW_NAME", "PYTHON_CODE"} |->
                    IF n = "PYTHON_CODE" THEN <<python_code>>
                    ELSE <<"{{workflow.name}}">>]
        sys  == IF system_dependencies # <<>>
                THEN [n \in {"SYSTEM_DEPS"} |-> system_dependencies]
                ELSE <<>>
        deps == IF dependencies # <<>>
                THEN [n \in {"PYTHON_DEPS"} |-> dependencies]
                ELSE IF requirements_file # <<>>
                THEN [n \in {"DEPENDENCIES"} |-> <<"requirements.txt">>]
                ELSE <<>>
    IN  base @@ sys @@ deps

\* The templates of the workflow that create_workflow_with_hera builds
\* (workflow_hera.py 546, 593-645).
task_templates(python_code, dependencies, requirements_file, system_dependencies, use_cache) ==
    LET base_image == IF system_dependencies # <<>>
                      THEN "nix-portable-base:latest"
                      ELSE "python:3.11-slim"
        env_vars == template_env(python_code, dependencies,
                                 requirements_file, system_dependencies)
    IN  IF has_dependencies(dependencies, requirements_file,
                            system_dependencies)
        THEN <<[name |-> "main", type |-> "script", image |-> base_image,
                command |-> <<"bash">>,
                source |-> build_script_source(dependencies,
                                               requirements_file,
                                               system_dependencies,
                                               use_cache),
                env |-> env_vars,
                volume_mounts |-> volume_mounts(use_cache)]>>
        ELSE <<[name |-> "main", type |-> "container",
                image |-> base_image,
                command |-> <<"python", "-c">>,
                source |-> <<python_code>>,
                env |-> env_vars,
                volume_mounts |-> volume_mounts(use_cache)]>>

----------------------------------------------------------------------------
(* SpecDeps, SpecSubmit: submit_task, run_task and create_flow on the *)
(* code and dependency columns                                         *)

\* A dependency string is a sequence of characters; <<>> stands for both
\* None and the empty string, which every test "if request.x" of the
\* handlers treats alike.
\* "bq" stands for the backquote character.
DepChars == {"a", ";", "&", "|", "bq", "$", "("}


\* dangerous_patterns (main.py 939)
dangerous_patterns ==
    <<<<";">>, <<"&", "&">>, <<"|", "|">>, <<"bq">>, <<"$", "(">>>>

\* pattern in text
Contains(text, pattern) ==
    \E i \in 1..(Len(text) - Len(pattern) + 1) :
        SubSeq(text, i, i + Len(pattern) - 1) = pattern

HasDangerousPattern(text) ==
    \E k \in DOMAIN dangerous_patterns : Contains(text, dangerous_patterns[k])

\* The columns of a Task row that submit_task writes (main.py 961-975).
TaskRow(request) ==
    [python_code |-> request.pythonCode,
     dependencies |-> request.dependencies,
     requirements_file |-> request.requirementsFile,
     system_dependencies |-> request.systemDependencies]

\* A variant of the branch for a given taskId that adds a row.
UpdateTaskRowAsNew(table, request) == Append(table, TaskRow(request))

\* The branch of submit_task for a given taskId (main.py 959-971): the
\* code and dependency columns of the row found are overwritten.
UpdateTaskRow(table, request) ==
    [table EXCEPT ![request.taskId] = TaskRow(request)]

\* The validation of submit_task (main.py 930-953): only
\* request.dependencies is searched for the patterns.
submit_task_rejects(request) ==
    request.dependencies # <<>> /\ HasDangerousPattern(request.dependencies)

\* submit_task (main.py 920-1005).  taskId 0 stands for an absent taskId;
\* a new task gets the next free id.
submit_task(request) ==
    /\ (request.taskId = 0 /\ ~submit_task_rejects(request))
          => Len(task_table) < MaxTasks
    /\ IF submit_task_rejects(request)
       THEN /\ ops' = [ops EXCEPT
                  !.store_reply = [op |-> "submit_task", status |-> 400, id |-> 0,
                                   request |-> request]]
       ELSE IF request.taskId # 0 /\ request.taskId \notin DOMAIN task_table
       THEN /\ ops' = [ops EXCEPT
                  !.store_reply = [op |-> "submit_task", status |-> 404, id |-> 0,
                                   request |-> request]]
       ELSE IF request.taskId # 0
       THEN /\ ops' = [ops EXCEPT
                  !.task_table = UpdateTaskRow(task_table, request),
                  !.store_reply = [op |-> "submit_task", status |-> 200,
                                   id |-> request.taskId, request |-> request]]
       ELSE /\ ops' = [ops EXCEPT
                  !.task_table = Append(task_table, TaskRow(request)),
                  !.store_reply = [op |-> "submit_task", status |-> 200,
                                   id |-> Len(task_table) + 1,
                                   request |-> request]]
    /\ UNCHANGED <<runVars, phaseVars, flowVars, logVars, pushVars, purgeVars>>

\* The rows of task_runs of task t.
SnapshotsOf(t) == {i \in DOMAIN run_table : run_table[i].task_id = t}

\* `order_by(TaskRun.run_number.desc()).first()` over the runs of task t
\* (main.py 1043-1045); the set is empty if the task has no run.
LatestSnapshotOf(t) ==
    {i \in SnapshotsOf(t) :
        \A j \in SnapshotsOf(t) :
            run_table[j].run_number <= run_table[i].run_number}

\* system_deps of run_task (main.py 1059-1071): request, else the latest
\* run, else the task.
run_system_deps(t, run_request, latest) ==
    LET from_run == IF run_request.systemDependencies # <<>>
                    THEN run_request.systemDependencies
                    ELSE IF latest # {}
                    THEN run_table[CHOOSE i \in latest : TRUE]
                            .system_dependencies
                    ELSE <<>>
    IN  IF from_run = <<>> THEN task_table[t].system_dependencies
        ELSE from_run

\* run_task (main.py 1013-1160) on the code and dependency columns; the
\* submission (create_and_submit_workflow) may fail, and then no row is
\* written.
run_task(t, run_request, submit_ok) ==
    /\ (/\ t \in DOMAIN task_table
        /\ submit_ok
        /\ \A i \in LatestSnapshotOf(t) :
              run_table[i].phase \notin {"Running", "Pending"})
          => Len(run_table) < MaxRuns
    /\ LET latest == LatestSnapshotOf(t)
           request == [task_id |-> t,
                       systemDependencies |-> run_request.systemDependencies,
                       useCache |-> run_request.useCache]
       IN  IF t \notin DOMAIN task_table
           THEN /\ ops' = [ops EXCEPT
                      !.store_reply = [op |-> "run_task", status |-> 404,
                                       id |-> 0, request |-> request]]
           ELSE IF \E i \in latest :
                       run_table[i].phase \in {"Running", "Pending"}
           THEN /\ ops' = [ops EXCEPT
                      !.store_reply = [op |-> "run_task", status |-> 400,
                                       id |-> 0, request |-> request]]
           ELSE IF ~submit_ok
           THEN /\ ops' = [ops EXCEPT
                      !.store_reply = [op |-> "run_task", status |-> 500,
                                       id |-> 0, request |-> request]]
           ELSE LET task == task_table[t]
                    system_deps == run_system_deps(t, run_request, latest)
                    number == IF latest = {} THEN 1
                              ELSE run_table[CHOOSE i \in latest : TRUE]
                                      .run_number + 1
                IN  /\ ops' = [ops EXCEPT
                          !.manifests =
                             Append(manifests,
                                    [kind |-> "task",
                                     python_code |-> task.python_code,
                                     dependencies |-> task.dependencies,
                                     requirements_file |->
                                        task.requirements_file,
                                     system_dependencies |-> system_deps,
                                     use_cache |-> run_request.useCache,
                                     templates |->
                                        task_templates(
                                           task.python_code,
                                           task.dependencies,
                                           task.requirements_file,
                                           system_deps,
                                           run_request.useCache)]),
                          !.run_table =
                             Append(run_table,
                                    [task_id |-> t,
                                     workflow_id |-> Len(manifests) + 1,
                                     run_number |-> number,
                                     phase |-> "Pending",
                                     python_code |-> task.python_code,
                                     dependencies |-> task.dependencies,
                                     requirements_file |->
                                        task.requirements_file,
                                     system_dependencies |-> system_deps]),
                          !.store_reply = [op |-> "run_task", status |-> 200,
                                           id |-> Len(run_table) + 1,
                                           request |-> request]]
    /\ UNCHANGED <<runVars, phaseVars, flowVars, logVars, pushVars, purgeVars>>

\* The workflow of run row i finishes and a poll stores its phase
\* (list_tasks, main.py 1299-1305).
RunCompletes(i) ==
    /\ i \in DOMAIN run_table
    /\ run_table[i].phase = "Pending"
    /\ ops' = [ops EXCEPT
          !.run_table = [run_table EXCEPT ![i].phase = "Succeeded"]]
    /\ UNCHANGED <<runVars, phaseVars, flowVars, logVars, pushVars, purgeVars>>

\* create_flow (main.py 2720-2768) for a flow of one step: the definition
\* is stored as it came.
create_flow(dependencies) ==
    /\ flow_table = <<>>
    /\ ops' = [ops EXCEPT
          !.flow_table = <<[dependencies |-> dependencies]>>,
          !.store_reply = [op |-> "create_flow", status |-> 200, id |-> 1,
                           request |-> [dependencies |-> dependencies]]]
    /\ UNCHANGED <<runVars, phaseVars, flowVars, logVars, pushVars, purgeVars>>

\* update_flow (main.py 2828-2882) with new steps: stored as they came.
update_flow(f, dependencies) ==
    /\ f \in DOMAIN flow_table
    /\ ops' = [ops EXCEPT
          !.flow_table = [flow_table EXCEPT ![f].dependencies = dependencies],
          !.store_reply = [op |-> "update_flow", status |-> 200, id |-> f,
                           request |-> [dependencies |-> dependencies]]]
    /\ UNCHANGED <<runVars, phaseVars, flowVars, logVars, pushVars, purgeVars>>

\* run_flow (main.py 2957-3030) as far as the manifest goes: the step's
\* template gets the stored dependency string in its DEPENDENCIES variable
\* (workflow_hera_flow.py 636-660).
run_flow_manifest(f) ==
    /\ f \in DOMAIN flow_table
    /\ manifests = <<>>
    /\ ops' = [ops EXCEPT
          !.manifests = <<[kind |-> "flow", python_code |-> "step",
                           dependencies |-> flow_table[f].dependencies,
                           requirements_file |-> <<>>,
                           system_dependencies |-> <<>>,
                           use_cache |-> TRUE]>>,
          !.store_reply = [op |-> "run_flow", status |-> 200, id |-> f,
                           request |-> [dependencies |-> <<>>]]]
    /\ UNCHANGED <<runVars, phaseVars, flowVars, logVars, pushVars, purgeVars>>

\* The dependency strings of SpecDeps: up to MaxDepLen characters, and
\* beyond one character only the denied patterns and the strings that
\* start with a harmless character.
DepTexts ==
    {text \in UNION {[1..n -> DepChars] : n \in 0..MaxDepLen} :
        \/ Len(text) <= 1
        \/ text[1] = "a"
        \/ \E k \in DOMAIN dangerous_patterns : text = dangerous_patterns[k]}

\* SpecDeps: one task with one run, or one flow, and a dependency string
\* of DepTexts in one dependency field at a time.
DepRequests ==
    {[pythonCode |-> "c1", dependencies |-> d, requirementsFile |-> <<>>,
      systemDependencies |-> <<>>, taskId |-> id] :
        d \in DepTexts, id \in 0..1}
    \cup {[pythonCode |-> "c1", dependencies |-> <<>>,
           requirementsFile |-> <<>>, systemDependencies |-> d,
           taskId |-> id] :
            d \in DepTexts, id \in 0..1}

InitDeps == InitRun /\ InitPhaseIdle /\ InitFlowIdle

\* The requests SpecDeps lets arrive: the task store and the flow store are
\* exercised in different behaviours, with one task and one run.
DepSubmits ==
    {request \in DepRequests :
        /\ flow_table = <<>>
        /\ request.taskId = 0 => task_table = <<>>}

DepRuns ==
    {run_request \in [systemDependencies : DepTexts, useCache : {TRUE}] :
        flow_table = <<>> /\ run_table = <<>>}

DepFlows == {d \in DepTexts : task_table = <<>>}

NextDeps ==
    \/ \E request \in DepSubmits : submit_task(request)
    \/ \E run_request \in DepRuns : run_task(1, run_request, TRUE)
    \/ \E d \in DepFlows : create_flow(d)
    \/ \E d \in DepTexts : update_flow(1, d)
    \/ run_flow_manifest(1)

SpecDeps == InitDeps /\ [][NextDeps]_vars

\* SpecSubmit: up to MaxTasks tasks and MaxRuns runs over two contents of
\* a task that pass the validation and one that does not.
SubmitContents ==
    {[pythonCode |-> "c1", dependencies |-> <<>>, requirementsFile |-> <<>>,
      systemDependencies |-> <<>>],
     [pythonCode |-> "c2", dependencies |-> <<"a">>,
      requirementsFile |-> <<"a">>, systemDependencies |-> <<"a">>],
     [pythonCode |-> "c2", dependencies |-> <<";">>,
      requirementsFile |-> <<>>, systemDependencies |-> <<>>]}

SubmitRequests ==
    {[pythonCode |-> c.pythonCode, dependencies |-> c.dependencies,
      requirementsFile |-> c.requirementsFile,
      systemDependencies |-> c.systemDependencies, taskId |-> id] :
        c \in SubmitContents, id \in 0..(MaxTasks + 1)}

\* An empty body (useCache defaults to True, main.py 1008-1010), a body
\* that turns the cache off and a body with both fields.
RunRequests ==
    {[systemDependencies |-> <<>>, useCache |-> TRUE],
     [systemDependencies |-> <<>>, useCache |-> FALSE],
     [systemDependencies |-> <<"a", "a">>, useCache |-> FALSE]}

InitSubmit == InitRun /\ InitPhaseIdle /\ InitFlowIdle

NextSubmit ==
    \/ \E request \in SubmitRequests : submit_task(request)
    \/ \E t \in 1..(MaxTasks + 1), run_request \in RunRequests,
          submit_ok \in BOOLEAN :
          run_task(t, run_request, submit_ok)
    \/ \E i \in 1..MaxRuns : RunCompletes(i)

SpecSubmit == InitSubmit /\ [][NextSubmit]_vars

----------------------------------------------------------------------------
(* SpecManifest: build_script_source and the template of a single task *)

\* The lines a requirements file is made of: a package, the word that ends
\* the here-document, and a shell command.
ReqLines == {"numpy", "REQ_EOF", "rm -rf /mnt/results"}

ReqFiles == UNION {[1..n -> ReqLines] : n \in 0..MaxReqLines}

BuildDeps == {<<>>, <<"a">>, <<"$", "(">>}

BuildInputs ==
    [python_code : {"c1", "c2"}, dependencies : BuildDeps,
     requirements_file : ReqFiles, system_dependencies : BuildDeps,
     use_cache : BOOLEAN]

\* A call of build_script_source; each behaviour makes one call.
build_script(b) ==
    /\ build_out = NoBuild
    /\ ops' = [ops EXCEPT
          !.build_in = b,
          !.build_out = [kind |-> "script",
                         source |-> build_script_source(b.dependencies,
                                                        b.requirements_file,
                                                        b.system_dependencies,
                                                        b.use_cache)]]
    /\ UNCHANGED <<runVars, phaseVars, flowVars, logVars, pushVars, purgeVars>>

\* The workflow document of create_workflow_with_hera
\* (workflow_hera.py 546-645).
build_task_workflow(b) ==
    /\ build_out = NoBuild
    /\ ops' = [ops EXCEPT
          !.build_in = b,
          !.build_out = [kind |-> "workflow",
                         templates |-> task_templates(b.python_code,
                                                      b.dependencies,
                                                      b.requirements_file,
                                                      b.system_dependencies,
                                                      b.use_cache)]]
    /\ UNCHANGED <<runVars, phaseVars, flowVars, logVars, pushVars, purgeVars>>

InitManifest == InitRun /\ InitPhaseIdle /\ InitFlowIdle

NextManifest ==
    \/ \E b \in BuildInputs : build_script(b)
    \/ \E b \in BuildInputs : build_task_workflow(b)

SpecManifest == InitManifest /\ [][NextManifest]_vars

----------------------------------------------------------------------------
(* SpecSchema: the columns init_db adds at startup *)

\* The columns of the models Task, TaskRun and TaskLog (database.py 26-82);
\* "id" stands for the columns every version of a table has.
ModelColumns ==
    [tb \in StoreTables |->
        IF tb = "tasks" THEN {"id", "system_dependencies"}
        ELSE IF tb = "task_runs"
        THEN {"id", "python_code", "dependencies", "requirements_file",
              "system_dependencies"}
        ELSE {"id", "run_id"}]

\* The columns later versions added to a table.
EvolvedColumns == [tb \in StoreTables |-> ModelColumns[tb] \ {"id"}]

\* The stores an older version of the application left behind: a table is
\* absent or has its "id" columns and some of the evolved ones; the three
\* code-snapshot columns come together, and a table is only there if the
\* table it references is.
LegacyCatalogs ==
    {c \in [StoreTables -> SUBSET ModelColumns["task_runs"]
                              \cup SUBSET ModelColumns["task_logs"]] :
        /\ \A tb \in StoreTables :
              c[tb] \subseteq ModelColumns[tb] /\ (c[tb] # {} => "id" \in c[tb])
        /\ LET snapshot == {"python_code", "dependencies", "requirements_file"}
           IN  c["task_runs"] \cap snapshot \in {{}, snapshot}
        /\ c["tasks"] = {} => c["task_runs"] = {}
        /\ c["task_runs"] = {} => c["task_logs"] = {}}

\* Base.metadata.create_all (database.py 173): a table that is absent is
\* created with the columns of its model, a table that exists is left as
\* it is.
create_all(c) ==
    [tb \in StoreTables |-> IF c[tb] = {} THEN ModelColumns[tb] ELSE c[tb]]

\* The tables for which init_db has an ALTER statement (database.py
\* 181-192), in the order of the code.
AlteredTables == <<"task_runs", "tasks">>

\* The migration of init_db (database.py 176-194) on catalog c: for each
\* table in turn system_dependencies is added if the inspector does not
\* list it; the statement that fails (failing is "inspect" or a table, or
\* "none") raises, and the except clause ends the migration there.
RECURSIVE migrate(_, _, _)
migrate(c, k, failing) ==
    IF failing = "inspect" \/ k > Len(AlteredTables) THEN c
    ELSE LET tb == AlteredTables[k]
         IN  IF "system_dependencies" \in c[tb]
             THEN migrate(c, k + 1, failing)
             ELSE IF failing = tb THEN c
             ELSE migrate([c EXCEPT ![tb] = @ \cup {"system_dependencies"}],
                          k + 1, failing)

\* An older version of the application made this store.
LegacyDeployment(c) ==
    /\ boot.boots = 0
    /\ catalog = EmptyStore
    /\ c # EmptyStore
    /\ ops' = [ops EXCEPT !.catalog = c]
    /\ UNCHANGED <<runVars, phaseVars, flowVars, logVars, pushVars, purgeVars>>

\* lifespan calling init_db (main.py 21-28, database.py 171-194): a
\* create_all that raises leaves init_db, and lifespan prints a warning;
\* in every case the startup goes on.  cut_short records that a statement
\* init_db had to run raised.
init_db(create_ok, failing) ==
    /\ boot.boots < MaxBoots
    /\ ops' = [ops EXCEPT
          !.catalog = IF create_ok THEN migrate(create_all(catalog), 1, failing)
                      ELSE catalog,
          !.boot = [boots |-> boot.boots + 1, completed |-> TRUE,
                    initialized |-> create_ok,
                    cut_short |-> ~create_ok
                       \/ migrate(create_all(catalog), 1, failing)
                          # migrate(create_all(catalog), 1, "none")]]
    /\ UNCHANGED <<runVars, phaseVars, flowVars, logVars, pushVars, purgeVars>>

InitSchema == InitRun /\ InitPhaseIdle /\ InitFlowIdle

NextSchema ==
    \/ \E c \in LegacyCatalogs : LegacyDeployment(c)
    \/ \E create_ok \in BOOLEAN,
          failing \in {"none", "inspect", "task_runs", "tasks"} :
          init_db(create_ok, failing)

SpecSchema == InitSchema /\ [][NextSchema]_vars

----------------------------------------------------------------------------
(* SpecSteps: run_flow and get_flow_run on the step runs of a flow run *)

\* flow_run.workflow_id of the run.
FlowWorkflowId == "flow-1"

\* A node key and a stored workflow_node_id are strings; they are held as
\* the sequence of their parts between dots, a step id being one part.
\* The forms of the key of the node of step s the handler provides for:
\* the engine's own (the workflow name and a hash), the step id, the
\* workflow name before the step id, and a longer dotted name.
KeyStyles == {"hashed", "direct", "prefixed", "nested"}

NodeKey(style, s) ==
    IF style = "direct" THEN <<s>>
    ELSE IF style = "prefixed" THEN <<FlowWorkflowId, s>>
    ELSE IF style = "nested" THEN <<FlowWorkflowId, "dag", s>>
    ELSE IF s = "a" THEN <<"flow-1-1001">>
    ELSE <<"flow-1-1002">>

\* The node of the DAG template "dag" (workflow_hera_flow.py 712): its
\* key and displayName are the workflow name.
RootKey == <<FlowWorkflowId>>

RootNode(phase) ==
    [type |-> "DAG", templateName |-> "dag", displayName |-> FlowWorkflowId,
     phase |-> phase]

\* The node of the task of step s (workflow_hera_flow.py 722-725): the
\* task and its template are named by the step id.
StepNode(s, phase) ==
    [type |-> "Pod", templateName |-> s, displayName |-> s, phase |-> phase]

\* node_key.endswith(f".{node_id}") (main.py 3241).
EndsWithDot(node_key, node_id) ==
    /\ Len(node_key) > Len(node_id)
    /\ SubSeq(node_key, Len(node_key) - Len(node_id) + 1, Len(node_key))
          = node_id

\* The test of the third strategy (main.py 3238-3241).
NodeMatches(nodes, node_key, node_id) ==
    \/ <<nodes[node_key].templateName>> = node_id
    \/ <<nodes[node_key].displayName>> = node_id
    \/ EndsWithDot(node_key, node_id)

NoNode == <<>>

\* The key of the node get_flow_run finds for a stored workflow_node_id
\* (main.py 3222-3246); order is the order in which nodes.items() yields
\* the nodes.
find_node(nodes, order, workflow_id, node_id) ==
    IF node_id \in DOMAIN nodes THEN node_id
    ELSE IF <<workflow_id>> \o node_id \in DOMAIN nodes
    THEN <<workflow_id>> \o node_id
    ELSE LET hits == {j \in DOMAIN order :
                         NodeMatches(nodes, order[j], node_id)}
         IN  IF hits = {} THEN NoNode
             ELSE order[CHOOSE j \in hits : \A h \in hits : j <= h]

\* The stored phase for a phase of the engine (main.py 3249-3259).
mapped_phase(node_phase) ==
    IF node_phase = "Succeeded" THEN "Succeeded"
    ELSE IF node_phase \in {"Failed", "Error"} THEN "Failed"
    ELSE IF node_phase = "Running" THEN "Running"
    ELSE "Pending"

\* A variant of reconcile_step that leaves the stored workflow_node_id as
\* it is.
reconcile_step_keep_id(step_run, nodes, order, workflow_id) ==
    LET node_key == find_node(nodes, order, workflow_id,
                              step_run.workflow_node_id)
    IN  IF node_key = NoNode THEN step_run
        ELSE [step_run EXCEPT !.phase = mapped_phase(nodes[node_key].phase)]

\* The body of the loop over the step runs in get_flow_run (main.py
\* 3216-3271).
reconcile_step(step_run, nodes, order, workflow_id) ==
    LET node_key == find_node(nodes, order, workflow_id,
                              step_run.workflow_node_id)
    IN  IF node_key = NoNode THEN step_run
        ELSE [step_run EXCEPT !.workflow_node_id = node_key,
                              !.phase = mapped_phase(nodes[node_key].phase)]

\* The FlowStepRun rows run_flow adds (main.py 3009-3023): one for each
\* step whose id is not empty.
RECURSIVE NewStepRuns(_, _)
NewStepRuns(steps, j) ==
    IF j > Len(steps) THEN <<>>
    ELSE IF steps[j] = "" THEN NewStepRuns(steps, j + 1)
    ELSE <<[step_id |-> steps[j], workflow_node_id |-> <<steps[j]>>,
            phase |-> "Pending"]>> \o NewStepRuns(steps, j + 1)

\* run_flow (main.py 2958-3023) once the workflow is submitted: the
\* FlowRun row and the FlowStepRun rows.
run_flow_rows ==
    /\ flow_run_row = NoFlowRun
    /\ ops' = [ops EXCEPT
          !.flow_run_row = [op |-> "run_flow",
                            workflow_id |-> FlowWorkflowId,
                            run_number |-> 1, phase |-> "Pending"],
          !.step_runs = NewStepRuns(flow_definition.steps, 1)]
    /\ UNCHANGED <<runVars, phaseVars, flowVars, logVars, pushVars, purgeVars>>

\* The engine starts the workflow: the node of the DAG template appears.
EngineStartsFlow ==
    /\ flow_run_row # NoFlowRun
    /\ flow_doc = NoFlowDoc
    /\ ops' = [ops EXCEPT
          !.flow_run_row = [@ EXCEPT !.op = "engine"],
          !.flow_doc = [phase |-> "Running",
                        nodes |-> [k \in {RootKey} |-> RootNode("Running")]]]
    /\ UNCHANGED <<runVars, phaseVars, flowVars, logVars, pushVars, purgeVars>>

\* The ids of the declared steps that have a task in the workflow.
TaskIds == Range(flow_definition.steps) \ {""}

\* The keys of the nodes of the steps follow one form in a workflow.
StyleOf(nodes) ==
    {st \in KeyStyles :
        \A s \in TaskIds, k \in DOMAIN nodes :
            nodes[k].templateName = s => k = NodeKey(st, s)}

\* The engine schedules the task of step s: its node appears.
EngineAddsNode(s, style, phase) ==
    /\ flow_doc # NoFlowDoc
    /\ flow_doc.phase = "Running"
    /\ s \in TaskIds
    /\ style \in StyleOf(flow_doc.nodes)
    /\ NodeKey(style, s) \notin DOMAIN flow_doc.nodes
    /\ ops' = [ops EXCEPT
          !.flow_run_row = [@ EXCEPT !.op = "engine"],
          !.flow_doc = [@ EXCEPT
                           !.nodes = [k \in DOMAIN @ \cup {NodeKey(style, s)} |->
                                         IF k = NodeKey(style, s)
                                         THEN StepNode(s, phase)
                                         ELSE @[k]]]]
    /\ UNCHANGED <<runVars, phaseVars, flowVars, logVars, pushVars, purgeVars>>

\* The phase of a node moves on.
EngineAdvancesNode(k, phase) ==
    /\ flow_doc.phase = "Running"
    /\ k \in DOMAIN flow_doc.nodes
    /\ k # RootKey
    /\ phase # flow_doc.nodes[k].phase
    /\ PhaseAdvances(flow_doc.nodes[k].phase, phase)
    /\ ops' = [ops EXCEPT
          !.flow_run_row = [@ EXCEPT !.op = "engine"],
          !.flow_doc = [@ EXCEPT !.nodes[k].phase = phase]]
    /\ UNCHANGED <<runVars, phaseVars, flowVars, logVars, pushVars, purgeVars>>

\* The workflow finishes: Succeeded if every task has a node and all of
\* them succeeded, Failed otherwise.
EngineFinishesFlow ==
    /\ flow_doc.phase = "Running"
    /\ \A k \in DOMAIN flow_doc.nodes \ {RootKey} :
          PhaseRank(flow_doc.nodes[k].phase) = 3
    /\ LET ok == /\ \A s \in TaskIds :
                       \E k \in DOMAIN flow_doc.nodes :
                           flow_doc.nodes[k].templateName = s
                 /\ \A k \in DOMAIN flow_doc.nodes \ {RootKey} :
                       flow_doc.nodes[k].phase = "Succeeded"
                 /\ "" \notin Range(flow_definition.steps)
           phase == IF ok THEN "Succeeded" ELSE "Failed"
       IN  ops' = [ops EXCEPT
              !.flow_run_row = [@ EXCEPT !.op = "engine"],
              !.flow_doc = [@ EXCEPT !.phase = phase,
                                     !.nodes[RootKey].phase = phase]]
    /\ UNCHANGED <<runVars, phaseVars, flowVars, logVars, pushVars, purgeVars>>

\* The status document as determine_workflow_phase reads it.
FlowStatus(doc) ==
    [empty |-> FALSE, phase |-> doc.phase,
     nodes |-> [k \in DOMAIN doc.nodes |->
                   [type |-> doc.nodes[k].type,
                    phase |-> doc.nodes[k].phase]]]

\* get_flow_run (main.py 3162-3275): the phase of the run and of its step
\* runs is synchronised with the workflow; a failing read leaves the rows.
get_flow_run(engine_ok) ==
    /\ flow_run_row # NoFlowRun
    /\ IF ~engine_ok \/ flow_doc = NoFlowDoc
       THEN ops' = [ops EXCEPT
               !.flow_run_row = [@ EXCEPT !.op = "get_flow_run_failed"]]
       ELSE \E order \in Perms(DOMAIN flow_doc.nodes) :
               ops' = [ops EXCEPT
                  !.flow_run_row =
                     [@ EXCEPT !.op = "get_flow_run",
                               !.phase = determine_workflow_phase(
                                            FlowStatus(flow_doc))],
                  !.step_runs =
                     [j \in DOMAIN step_runs |->
                         reconcile_step(step_runs[j], flow_doc.nodes, order,
                                        flow_run_row.workflow_id)]]
    /\ UNCHANGED <<runVars, phaseVars, flowVars, logVars, pushVars, purgeVars>>

\* The steps of the flow that is run; the synthesis has no test of the
\* ids (workflow_hera_flow.py 536-545, 634-635).
InitSteps ==
    /\ InitRun /\ InitPhaseIdle
    /\ flow_definition \in
          {d \in FlowDefinitions : d.steps # <<>> /\ d.edges = <<>>}
    /\ pvc_status = "unread"
    /\ synth = NotSynthesized

NextSteps ==
    \/ run_flow_rows
    \/ EngineStartsFlow
    \/ \E s \in StepIds, style \in KeyStyles, phase \in NodePhases :
          EngineAddsNode(s, style, phase)
    \/ \E k \in DOMAIN flow_doc.nodes, phase \in NodePhases :
          EngineAdvancesNode(k, phase)
    \/ EngineFinishesFlow
    \/ \E engine_ok \in BOOLEAN : get_flow_run(engine_ok)

SpecSteps == InitSteps /\ [][NextSteps]_vars

----------------------------------------------------------------------------
(* SpecLegacy: the log store under the schema without run_id *)

\* Two runs of task t1 and the names of their workflows.
LegacyWorkflows == <<"python-job-1", "python-job-2">>

LegacyRuns == DOMAIN LegacyWorkflows

\* A pod name and a node id are strings, held as the sequence of their
\* parts; the name of a workflow is one part.  pod_name LIKE '%<name>%'.
Like(pod_name, workflow_id) == workflow_id \in Range(pod_name)

\* The entries fetch_logs_from_kubernetes answers for a workflow (main.py
\* 377-489): those of its pods, whose node id and pod name begin with the
\* name of the workflow, or the one of the workflow's message.
LegacyEntries(workflow_id) ==
    {LogEntry(n, n, "Running", text) :
        n \in {<<workflow_id>>, <<workflow_id, "-2">>}, text \in {"x", "y"}}
    \cup {LogEntry(<<"workflow">>, <<"N/A">>, "Failed", text) :
             text \in {"Workflow message: x", "Workflow message: y"}}

\* The rows the SELECT of the save matches (main.py 543-556).
LegacyExisting(rows, task_id, workflow_id, e) ==
    {k \in DOMAIN rows :
        /\ rows[k].task_id = task_id
        /\ rows[k].node_id = e.node
        /\ (rows[k].pod_name = e.pod \/ Like(rows[k].pod_name, workflow_id))}

\* The table after the save of one entry of a run (main.py 535-583): hit
\* is the row the SELECT answered, 0 if none.  by is not a column: it
\* names the run whose save inserted the row.
LegacySaveEntry(rows, run, task_id, e, hit) ==
    IF hit # 0
    THEN [rows EXCEPT ![hit].logs = e.logs, ![hit].phase = e.phase]
    ELSE Append(rows, [task_id |-> task_id, node_id |-> e.node,
                       pod_name |-> e.pod, phase |-> e.phase,
                       logs |-> e.logs, by |-> run])

\* The rows the SELECT of the read answers (main.py 665-679): task_runs
\* has the two runs of t1, so the join keeps every row of t1.
LegacyReadRows(rows, workflow_id) ==
    {k \in DOMAIN rows :
        /\ rows[k].task_id = "t1"
        /\ (Like(rows[k].pod_name, workflow_id)
              \/ rows[k].node_id = <<workflow_id>>)}

\* get_logs_from_database under the schema without run_id (main.py
\* 660-695): the distinct entries of the rows, in the order of creation.
get_logs_from_database_old_schema(rows, workflow_id) ==
    LET Hit(k) == k \in LegacyReadRows(rows, workflow_id)
        ids == SelectSeq([k \in 1..Len(rows) |-> k], Hit)
        entry(j) == LogEntry(rows[ids[j]].node_id, rows[ids[j]].pod_name,
                             rows[ids[j]].phase, rows[ids[j]].logs)
        First(j) == \A h \in 1..(j - 1) : entry(h) # entry(j)
        kept == SelectSeq([j \in 1..Len(ids) |-> j], First)
    IN  [j \in 1..Len(kept) |-> entry(kept[j])]

\* save_logs_to_database under the schema without run_id (main.py
\* 535-583), for the one entry of a fetch of the run's workflow.
save_logs_to_database_old_schema(run, e) ==
    LET rows == legacy.rows
        workflow_id == LegacyWorkflows[run]
        existing == LegacyExisting(rows, "t1", workflow_id, e)
    IN  /\ \E hit \in existing \cup {0} :
              /\ hit = 0 <=> existing = {}
              /\ hit = 0 => Len(rows) < MaxLogRows
              /\ ops' = [ops EXCEPT
                    !.legacy.rows = LegacySaveEntry(rows, run, "t1", e, hit),
                    !.legacy.saved =
                       {w \in @ : ~(w.run = run /\ w.entry.node = e.node
                                      /\ w.entry.pod = e.pod)}
                          \cup {[run |-> run, entry |-> e]}]
        /\ UNCHANGED <<runVars, phaseVars, flowVars, logVars, pushVars, purgeVars>>

\* A read of the logs of a run.
LegacyRead(run) ==
    /\ ops' = [ops EXCEPT
          !.legacy.reply =
             [run |-> run,
              logs |-> get_logs_from_database_old_schema(
                          legacy.rows, LegacyWorkflows[run])]]
    /\ UNCHANGED <<runVars, phaseVars, flowVars, logVars, pushVars, purgeVars>>

InitLegacy == InitRun /\ InitPhaseIdle /\ InitFlowIdle

NextLegacy ==
    \/ \E run \in LegacyRuns :
          \E e \in LegacyEntries(LegacyWorkflows[run]) :
             save_logs_to_database_old_schema(run, e)
    \/ \E run \in LegacyRuns : LegacyRead(run)

SpecLegacy == InitLegacy /\ [][NextLegacy]_vars

----------------------------------------------------------------------------
(* SpecStuck: the polls and run_task after a run's workflow is gone *)

\* The names of the workflows the engine has seen.
SubmittedNames ==
    {WorkflowNames[w] : w \in DOMAIN workflows \cap DOMAIN WorkflowNames}

\* What the engine answers to the status read of a tick of the stream: an
\* error if the workflow of the stream's run is gone.
TickAnswer(resp) ==
    IF /\ task_runs[ws.run].workflow_id \in DOMAIN workflows
       /\ workflows[task_runs[ws.run].workflow_id]
    THEN resp ELSE EngineError

\* Task t1 with one run whose workflow the engine runs.
InitStuck ==
    /\ InitPhaseIdle /\ InitFlowIdle
    /\ task_runs = <<NewRun("t1", 1, 1)>>
    /\ flow_runs = <<>>
    /\ workflows = <<TRUE>>
    /\ req = [r \in Reqs |-> Idle]
    /\ ws = WsClosed
    /\ task_logs = <<>>
    /\ pulls = [s \in PullSlots |-> PullIdle]
    /\ pulled = NoPull
    /\ stream = StreamClosed
    /\ frames = <<>>
    /\ wf_doc = NoStatus
    /\ InitPurgeIdle

NextStuck ==
    \/ \E t \in Tasks : RunTaskCheck(1, t)
    \/ \E ok \in BOOLEAN : RunTaskSubmit(1, ok)
    \/ RunTaskNumber(1)
    \/ RunTaskInsert(1)
    \/ \E name \in Tasks \cup SubmittedNames, engine_ok \in BOOLEAN :
          cancel_task(name, engine_ok)
    \/ \E t \in Tasks : delete_task(t)
    \/ delete_task_workflows
    \/ \E db_ok \in BOOLEAN : delete_task_rows(db_ok)
    \/ \E t \in Tasks, n \in 1..MaxReq, resp \in PollDocs :
          get_run_logs_phase(t, n, resp)
    \/ \E latest \in [TasksWithRuns -> DOMAIN task_runs],
          resp \in [TasksWithRuns -> PollDocs] :
          list_tasks(latest, resp)
    \/ \E t \in Tasks : WsConnect(t)
    \/ \E resp \in PollDocs, saved \in BOOLEAN :
          ws.open /\ WsTick(TickAnswer(resp), saved)
    \/ WsDisconnect

SpecStuck == InitStuck /\ [][NextStuck]_vars

----------------------------------------------------------------------------
(* Properties of the run store (Spec) *)

\* C1: no two Run rows of the same task carry the same run_number,
\* whatever the interleaving of the run_task calls.
C1_UniqueRunNumbers ==
    \A i, j \in DOMAIN task_runs :
        (i # j /\ task_runs[i].owner = task_runs[j].owner)
            => task_runs[i].run_number # task_runs[j].run_number

\* C2: every task has at most one Run row whose stored phase is Pending or
\* Running, also while several run_task requests are in flight.
C2_AtMostOneActive ==
    \A t \in Tasks :
        Cardinality({i \in RunIdsOf(task_runs, t) :
                        task_runs[i].phase \in ActivePhases}) <= 1

\* Every row the latest-run query can return is Pending or Running.
LatestActive(runs, owner) ==
    /\ LatestRunIds(runs, owner) # {}
    /\ \A l \in LatestRunIds(runs, owner) : runs[l].phase \in ActivePhases

RunsOfOp(r) == IF req'[r].op = "run_task" THEN task_runs ELSE flow_runs

\* C3: a run_task (run_flow) call that finds the latest run of its task
\* (flow) Pending or Running is rejected; the rejection submits no workflow
\* and creates no row, and a rejected call does nothing afterwards.
C3_ActiveRunRejected ==
    [][\A r \in Reqs :
          /\ (req[r].pc = "idle" /\ req'[r].pc # "idle"
                /\ LatestActive(RunsOfOp(r), req'[r].target))
             => /\ req'[r].pc = "rejected"
                /\ UNCHANGED <<task_runs, flow_runs, workflows>>
          /\ req[r].pc = "rejected" => req'[r] = req[r]]_vars

\* A second call was rejected while the first run of the task is active:
\* one row, one workflow.
C3_Witness ==
    \E r \in Reqs :
        /\ req[r].pc = "rejected"
        /\ req[r].op = "run_task"
        /\ LatestActive(task_runs, req[r].target)
        /\ Len(task_runs) = 1
        /\ Cardinality(DOMAIN workflows) = 1

\* C4: a stored phase that is Succeeded, Failed or Error never changes
\* again, whatever the engine answers to later list and pull operations.
C4_TerminalPhaseStable ==
    [][\A i \in DOMAIN task_runs :
          task_runs[i].phase \in TerminalPhases
             => task_runs'[i].phase = task_runs[i].phase]_vars

----------------------------------------------------------------------------
(* Properties of the Manifest Synthesizer (SpecFlow) *)

DeclaredSteps == Range(flow_definition.steps)

\* The edges of the definition between declared steps.
DeclaredGraph ==
    {<<flow_definition.edges[i].source, flow_definition.edges[i].target>> :
        i \in {k \in DOMAIN flow_definition.edges :
                 /\ flow_definition.edges[k].source \in DeclaredSteps
                 /\ flow_definition.edges[k].target \in DeclaredSteps}}

RECURSIVE PathsWithin(_, _)
\* The pairs joined by a path of at most k + 1 edges of R.
PathsWithin(R, k) ==
    IF k = 0 THEN R
    ELSE LET P == PathsWithin(R, k - 1)
         IN  P \cup {<<u[1][1], u[2][2]>> :
                       u \in {v \in P \X R : v[1][2] = v[2][1]}}

GraphHasCycle ==
    LET R == DeclaredGraph
        n == Cardinality(DeclaredSteps)
    IN  \E s \in DeclaredSteps : <<s, s>> \in PathsWithin(R, n)

\* The definition passed every check that precedes the cycle detection.
ReachedCycleCheck ==
    /\ synth.outcome # "none"
    /\ pvc_status \in {"Bound", "Unverified"}
    /\ flow_definition.steps # <<>>
    /\ synth.outcome # "invalid_edge"

\* C5: a definition is rejected with the cycle error, and nothing is
\* submitted, exactly if the graph of its edges has a cycle (a self-loop
\* counts).
C5_CycleErrorIffCyclic ==
    ReachedCycleCheck => (synth.outcome = "cycle" <=> GraphHasCycle)

\* C6: every admitted definition has all edge endpoints among the declared
\* step ids; a definition with another endpoint is rejected.
C6_AdmittedEndpointsDeclared ==
    synth.outcome = "submitted" =>
        \A i \in DOMAIN flow_definition.edges :
            /\ flow_definition.edges[i].source \in DeclaredSteps
            /\ flow_definition.edges[i].target \in DeclaredSteps

EdgeSourcesInto(step_id) ==
    {flow_definition.edges[i].source :
        i \in {k \in DOMAIN flow_definition.edges :
                 flow_definition.edges[k].target = step_id}}

\* C7: the DAG template of an admitted definition has exactly one task per
\* declared step id, each with the sources of the edges into the step as
\* dependencies, all of them declared steps.
C7_DagMatchesEdges ==
    synth.outcome = "submitted" =>
        /\ \A s \in DeclaredSteps :
              Cardinality({i \in DOMAIN synth.tasks : synth.tasks[i].name = s}) = 1
        /\ \A i \in DOMAIN synth.tasks :
              /\ synth.tasks[i].name \in DeclaredSteps
              /\ Range(synth.tasks[i].dependencies)
                    = EdgeSourcesInto(synth.tasks[i].name)
              /\ Range(synth.tasks[i].dependencies) \subseteq DeclaredSteps

----------------------------------------------------------------------------
(* Properties of the Phase Resolver (SpecPhase) *)

\* C8: an empty status and an empty top-level phase give Pending; a
\* top-level Succeeded, Failed or Error is returned as it is, whatever the
\* nodes are.
C8_EmptyAndTerminal ==
    resolved # "none" =>
        IF status.empty THEN resolved = "Pending"
        ELSE /\ status.phase = "" => resolved = "Pending"
             /\ status.phase \in TerminalPhases => resolved = status.phase

\* A finished workflow was resolved while one of its pods is still Running.
C8_Witness ==
    /\ resolved \in TerminalPhases
    /\ ~status.empty
    /\ HasPod(status.nodes, {"Running"})

PendingLike == {"Pending", ""}

\* The algorithm as the specification words it, a phase-less pod counted
\* as pending.
SpecAlgorithm(st) ==
    LET pods == {n \in DOMAIN st.nodes : st.nodes[n].type = "Pod"}
        any(ps) == \E n \in pods : st.nodes[n].phase \in ps
    IN  IF st.phase = "Running"
        THEN IF any({"Running"}) THEN "Running"
             ELSE IF ~any(PendingLike) /\ any({"Succeeded"}) THEN "Running"
             ELSE IF pods = {} \/ \A n \in pods : st.nodes[n].phase \in PendingLike
                  THEN "Pending"
             ELSE "Running"
        ELSE IF any({"Running"}) THEN "Running" ELSE "Pending"

\* C9: for a top-level Running or Pending the resolver returns what the
\* specified algorithm returns.
C9_MatchesSpecAlgorithm ==
    (resolved # "none" /\ ~status.empty /\ status.phase \in ActivePhases)
        => resolved = SpecAlgorithm(status)

\* C10 as stated: Running is returned only if some pod node is Running.
C10_RunningOnlyIfPodRunning ==
    (resolved = "Running") => HasPod(status.nodes, {"Running"})

\* C10 as amended: Running is returned only if some pod node is Running,
\* or the top-level phase is Running, there is a pod node and no pod node
\* is Pending or phase-less.
C10_RunningOnlyIfPodRunningOrNonePending ==
    (resolved = "Running") =>
        \/ HasPod(status.nodes, {"Running"})
        \/ /\ status.phase = "Running"
           /\ HasPod(status.nodes, NodePhases)
           /\ ~HasPod(status.nodes, PendingLike)

\* Running was returned for a workflow whose pods have all succeeded.
C10_Witness ==
    /\ resolved = "Running"
    /\ ~HasPod(status.nodes, {"Running"})
    /\ HasPod(status.nodes, {"Succeeded"})

----------------------------------------------------------------------------
(* Properties of the log store (SpecLogs) *)

\* C11: the store holds at most one log row per (run_id, node_id,
\* pod_name), whatever the interleaving of the upserts.
C11_OneLogRowPerKey ==
    \A j, k \in DOMAIN task_logs :
        (j # k /\ task_logs[j].run_id = task_logs[k].run_id
               /\ task_logs[j].node_id = task_logs[k].node_id)
            => task_logs[j].pod_name # task_logs[k].pod_name

\* The entries are those of the stored rows, the phase apart.
SameLogs(logs, stored) ==
    /\ Len(logs) = Len(stored)
    /\ \A j \in 1..Len(logs) :
          /\ logs[j].node = stored[j].node
          /\ logs[j].pod = stored[j].pod
          /\ logs[j].logs = stored[j].logs

\* What a pull must answer when it finds the rows `stored` for its run.
PullAnswers(r, stored) ==
    IF stored # <<>>
    THEN /\ r.source = "database"
         /\ ~r.fetch.called
         /\ SameLogs(r.logs, stored)
    ELSE /\ r.fetch.called
         /\ IF r.fetch.failed
            THEN r.source = "error" /\ r.logs = <<>>
            ELSE r.source = "kubernetes" /\ r.logs = r.fetch.logs

Stored(rows, run_id, e) ==
    \E k \in LogIdsOf(rows, run_id) :
        /\ rows[k].node_id = e.node /\ rows[k].pod_name = e.pod
        /\ rows[k].phase = e.phase /\ rows[k].logs = e.logs

\* C12: a pull that finds log rows of its run returns them with source
\* "database" without asking the engine; one that finds none asks the engine
\* and returns what it got with source "kubernetes", and an empty list with
\* source "error" if the fetch failed; what the engine gave is in the store
\* when the pull returns.
C12_PullSources ==
    [][\A s \in PullSlots :
          /\ (pulls[s].pc = "idle" /\ pulls'[s].pc # "idle")
                => LET r == IF pulls'[s].pc = "saving"
                            THEN pulls'[s].response ELSE pulled'
                   IN  PullAnswers(r, get_logs_from_database(task_logs, r.run))
          /\ (pulls'[s].pc = "returned" /\ pulls[s].pc # "returned"
                /\ pulled'.source = "kubernetes")
                => \A j \in 1..Len(pulled'.logs) :
                      Stored(task_logs', pulled'.run, pulled'.logs[j])]_vars

\* A pull returned from the engine what it then stored, and a later pull
\* returned the stored rows.
C12_Witness ==
    /\ pulled.source = "database"
    /\ pulled.logs # <<>>
    /\ \A j \in 1..Len(pulled.logs) :
          Stored(task_logs, pulled.run, pulled.logs[j])

\* C13: when a pull that resolved a Succeeded, Failed or Error workflow
\* returns, every entry it returns and every log row stored for its run
\* carries the resolved phase.
C13_TerminalLogPhases ==
    [][\A s \in PullSlots :
          (pulls'[s].pc = "returned" /\ pulls[s].pc # "returned"
             /\ pulled'.resolved \in TerminalPhases)
             => /\ \A j \in 1..Len(pulled'.logs) :
                      pulled'.logs[j].phase = pulled'.resolved
                /\ \A k \in LogIdsOf(task_logs', pulled'.run) :
                      task_logs'[k].phase = pulled'.resolved]_vars

----------------------------------------------------------------------------
(* Properties of the push stream (SpecStream, SpecStreamFair) *)

\* The frames the step sent to the client of the stream.
StepFrames == IF stream' # stream THEN frames' ELSE <<>>

\* C14: a complete frame is sent only when the phase resolved from the
\* workflow's status is Succeeded, Failed or Error; it is the last frame of
\* its step and the only complete frame of the stream, which is closed
\* from then on: no step sends a frame after it.
C14_CompleteOnceAndLast ==
    [][/\ \A k \in DOMAIN StepFrames :
            StepFrames[k].type = "complete"
               => /\ k = Len(StepFrames)
                  /\ StepFrames[k].workflow_phase \in TerminalPhases
                  /\ StepFrames[k].workflow_phase
                        = determine_workflow_phase(wf_doc)
                  /\ stream.pc # "completed"
                  /\ stream'.pc = "completed"
       /\ stream.pc = "completed"
            => (stream' = stream /\ frames' = frames)]_vars

\* The stream ended with the final logs frame followed by complete.
C14_Witness ==
    /\ stream.pc = "completed"
    /\ Len(frames) = 2
    /\ frames[1].type = "logs"
    /\ frames[2].type = "complete"

\* The call of fetch_and_send_logs this step made resolved a phase or a log
\* list that differs from those of the last logs frame sent.
TickChanged ==
    /\ stream'.phase # "Unknown"
    /\ \/ stream.emitted = NoFrame
       \/ /\ stream.emitted # NoFrame
          /\ \/ stream'.phase # stream.emitted.workflow_phase
             \/ stream'.all_logs # stream.emitted.data

\* C15: the first call of fetch_and_send_logs after the connect sends one
\* logs frame with the run's logs and phase; every later call sends one
\* logs frame, with the resolved phase and list, if the phase or the list
\* differs from the last logs frame sent, and nothing otherwise.
C15_SnapshotThenChanges ==
    [][(/\ stream.pc \in {"first", "poll"}
        /\ stream'.pc \in {"poll", "test"}
        /\ stream'.pc # stream.pc)
          => IF stream.pc = "first"
             THEN /\ Len(frames') = 1
                  /\ frames'[1].type = "logs"
                  /\ frames'[1].workflow_phase = task_runs'[stream.run].phase
                  /\ frames'[1].data = stream'.all_logs
             ELSE IF TickChanged
             THEN frames' = <<LogsFrame(stream'.all_logs, stream'.phase)>>
             ELSE frames' = <<>>]_vars

\* C16: if the workflow reaches a terminal phase in the engine and the
\* client connects and stays connected, the stream reaches the state after
\* its complete frame.
C16_StreamCompletes ==
    (/\ <>(wf_doc.phase \in TerminalPhases)
     /\ <>(stream.pc # "closed")
     /\ [](stream.pc # "disconnected"))
        => <>(stream.pc = "completed")

----------------------------------------------------------------------------
(* Properties of cancel and purge (SpecPurge) *)

\* The step is a cancel_task call that the engine answered.
CancelStep ==
    /\ reply' # reply
    /\ reply'.op = "cancel"
    /\ reply'.status # 500

\* C17: a Cancel of a task leaves the workflow of the task's latest run
\* deleted from the engine and changes no Task, Run or log row; a run whose
\* workflow is absent keeps its stored phase in every later poll.
C17_CancelDeletesWorkflowOnly ==
    [][/\ (CancelStep /\ reply'.id \in tasks)
            => /\ \A i \in LatestRunIds(task_runs, reply'.id) :
                     ~workflows'[task_runs[i].workflow_id]
               /\ UNCHANGED <<tasks, task_runs, task_logs>>
       /\ \A i \in DOMAIN task_runs :
             (/\ task_runs[i].owner \in Tasks
              /\ task_runs'[i].owner = task_runs[i].owner
              /\ ~workflows[task_runs[i].workflow_id])
                => task_runs'[i].phase = task_runs[i].phase]_vars

\* C18: a cancel_task or delete_task call to which the engine answered
\* not-found for a workflow delete, and whose store transaction did not
\* fail, answers with success.
C18_NotFoundIsSuccess ==
    (/\ reply.op \in {"cancel", "delete_task"}
     /\ reply.not_found
     /\ reply.op = "delete_task" => reply.store_ok)
        => reply.status = 200

\* The step ends a delete_task call.
PurgeStep == purge.pc = "engine_done" /\ purge'.pc = "idle"

\* C19: when delete_task answers with success, a delete was issued for the
\* workflow of every run the task had, and the task's row, its run rows
\* and their log rows are gone; when its store transaction fails, no row
\* has changed.
C19_PurgeRemovesAll ==
    [][PurgeStep =>
          LET t == purge.id
              runs == RunIdsOf(task_runs, t)
          IN  IF reply'.status = 200
              THEN /\ \A i \in runs :
                         WorkflowNames[task_runs[i].workflow_id]
                            \in delete_calls'
                   /\ t \notin tasks'
                   /\ RunIdsOf(task_runs', t) = {}
                   /\ \A k \in DOMAIN task_logs' :
                         task_logs'[k].run_id \notin runs
              ELSE /\ reply'.status = 500
                   /\ UNCHANGED <<tasks, task_runs, task_logs>>]_vars

\* C20: when delete_flow answers with success, a delete was issued for the
\* workflow of every run the flow had, and the flow's row and its run rows
\* are gone.
C20_FlowPurgeRemovesAll ==
    [][(/\ reply' # reply
        /\ reply'.op = "delete_flow"
        /\ reply'.status = 200)
          => LET f == reply'.id
             IN  /\ \A i \in RunIdsOf(flow_runs, f) :
                       WorkflowNames[flow_runs[i].workflow_id]
                          \in delete_calls'
                 /\ f \notin flows'
                 /\ RunIdsOf(flow_runs', f) = {}]_vars

----------------------------------------------------------------------------
(* Properties of the helper pod manager (SpecPod) *)

\* C21: an exec_command call makes at most two exec attempts; whenever the
\* manager has deleted the pod (after observing it non-ready or after a
\* failed exec) no exec is attempted before a create of the pod succeeded;
\* and a second attempt that fails ends the call with the failure, without
\* a further attempt.
C21_RetryOnceAfterRecreate ==
    [][/\ mgr'.execs <= 2
       /\ (mgr.pc = "exec" /\ mgr'.execs = mgr.execs + 1)
             => ~mgr.recreate_pending
       /\ (mgr.pc = "exec" /\ mgr.execs = 1 /\ mgr' # mgr
              /\ mgr'.pc # "done")
             => mgr'.pc = "failed" /\ mgr'.execs = 2
       /\ (mgr.pc = "failed" /\ mgr'.pc # "failed")
             => mgr'.pc = "ensure" /\ mgr'.execs = 0]_vars

\* C22: the ready flag is set, and create_pod returns normally, only in a
\* step that reads the pod as Running with its container ready; a
\* create_pod that fails leaves the flag cleared after at most max_wait
\* polls; and no exec is issued against a pod the manager never observed
\* ready.
C22_ReadyOnlyWhenObserved ==
    [][/\ (mgr'.pod_ready /\ ~mgr.pod_ready) => IsReady(pv_pod)
       /\ (mgr.pc \in {"create", "wait"} /\ mgr'.pc \in {"exec", "done"})
             => IsReady(pv_pod) /\ mgr'.pod_ready
       /\ (mgr.pc \in {"create", "wait"} /\ mgr'.pc = "failed")
             => ~mgr'.pod_ready /\ mgr'.waited <= max_wait
       /\ (mgr.pc = "exec" /\ mgr'.execs = mgr.execs + 1 /\ pv_pod.present)
             => pv_pod.observed]_vars

----------------------------------------------------------------------------
(* Properties of the file operations (SpecFiles, SpecUpload) *)

\* C23: whenever a file operation goes on to the helper pod, every path it
\* uses there lies under the result mount /mnt/results or is the parent
\* alias /mnt; a request with any other path is rejected first.
C23_PathsUnderResultMount ==
    \A i \in 1..Len(file_out.paths) :
        \/ UnderResultMount(file_out.paths[i])
        \/ file_out.paths[i] = ParentMount

\* C24: no step changes a file that exists; the name an upload settles on
\* is the plain name if it is free, else the suffix _N with the least
\* N >= 1 that is free; and the uploads answered with success have written
\* pairwise distinct paths that hold their contents.
C24_UploadNeverOverwrites ==
    [][/\ \A n \in 0..MaxSuffix :
             pv_files'[n] # pv_files[n] => pv_files[n] = "none"
       /\ \A u \in UploadSlots :
             (uploads[u].pc = "check" /\ uploads'[u].pc = "write")
                => /\ pv_files[uploads'[u].final_path] = "none"
                   /\ \A k \in 0..(uploads'[u].final_path - 1) :
                         pv_files[k] # "none"
       /\ \A u \in UploadSlots :
             (uploads'[u].pc = "done" /\ uploads'[u].status = 200)
                => /\ pv_files'[uploads'[u].final_path] = UploadContents[u]
                   /\ \A v \in UploadSlots \ {u} :
                         (uploads'[v].pc = "done"
                          /\ uploads'[v].status = 200)
                            => uploads'[v].final_path
                                  # uploads'[u].final_path]_vars

----------------------------------------------------------------------------
(* Properties of the volume claims (SpecVolumes) *)

\* C25: a workflow (single task, flow step or flow) is submitted only if
\* every volume claim its manifest names was read and found Bound.
C25_SubmittedOnlyIfClaimsBound ==
    (submission # NoSubmission /\ submission.outcome = "submitted")
        => submission.mounts \subseteq submission.verified


----------------------------------------------------------------------------
(* Properties of the dependency strings (SpecDeps) *)

\* No stored row and no manifest holds a dependency string with a denied
\* pattern.
StoredDepsClean ==
    /\ \A t \in DOMAIN task_table :
          /\ ~HasDangerousPattern(task_table[t].dependencies)
          /\ ~HasDangerousPattern(task_table[t].system_dependencies)
    /\ \A i \in DOMAIN run_table :
          /\ ~HasDangerousPattern(run_table[i].dependencies)
          /\ ~HasDangerousPattern(run_table[i].system_dependencies)
    /\ \A f \in DOMAIN flow_table :
          ~HasDangerousPattern(flow_table[f].dependencies)
    /\ \A m \in DOMAIN manifests :
          /\ ~HasDangerousPattern(manifests[m].dependencies)
          /\ ~HasDangerousPattern(manifests[m].system_dependencies)

\* C26: no dependency string that contains one of the denied patterns
\* (; && || backquote $( ) is ever stored or placed in a manifest, whether
\* it came as a task's Python dependencies, a task's system dependencies,
\* the system dependencies of a run request or a flow step's dependencies;
\* and a request rejected by the validation leaves the store unchanged.
C26_NoDeniedDependencyAccepted ==
    [][/\ StoredDepsClean'
       /\ (store_reply' # store_reply /\ store_reply'.status = 400)
             => UNCHANGED <<task_table, run_table, flow_table, manifests>>]_vars

----------------------------------------------------------------------------
(* Properties of submit_task and run_task (SpecSubmit) *)

\* The four snapshot columns of a row of tasks or task_runs, or the same
\* four values of a manifest.
SnapshotFields(row) ==
    <<row.python_code, row.dependencies, row.requirements_file,
      row.system_dependencies>>

\* C28: a run row created by run_task carries python_code, dependencies,
\* requirements_file and system_dependencies equal to the values its task
\* has at that moment, the manifest submitted for it is built from the same
\* values, and no later step (a resubmit of the task in particular)
\* changes the snapshot of a run row that exists.
C28_RunSnapshotsTaskValues ==
    [][/\ Len(run_table') = Len(run_table) + 1 =>
             LET r == run_table'[Len(run_table')]
             IN  /\ r.task_id \in DOMAIN task_table
                 /\ SnapshotFields(r) = SnapshotFields(task_table[r.task_id])
                 /\ r.workflow_id \in DOMAIN manifests'
                 /\ r.workflow_id \notin DOMAIN manifests
                 /\ SnapshotFields(manifests'[r.workflow_id]) =
                       SnapshotFields(task_table[r.task_id])
       /\ \A i \in DOMAIN run_table :
             /\ i \in DOMAIN run_table'
             /\ SnapshotFields(run_table'[i]) =
                   SnapshotFields(run_table[i])]_vars

----------------------------------------------------------------------------
(* Properties of the bootstrap script and the task template (SpecManifest) *)

\* Which of the dependency inputs are present, and use_cache.
Presence(b) ==
    <<b.dependencies # <<>>, b.requirements_file # <<>>,
      b.system_dependencies # <<>>, b.use_cache>>

\* The positions of a script that bash reads as data of the here-document:
\* the lines after its head up to the first line that is the end word.
HereDocData(source) ==
    {i \in DOMAIN source :
        \E h \in 1..(i - 1) :
            /\ source[h] = HereDocHead
            /\ \A j \in (h + 1)..i : source[j] # HereDocEnd}

\* The lines build_script_source itself writes.
BuilderLines ==
    {"set -e", HereDocHead, HereDocEnd}
    \cup {block[1] : block \in {NixCheckBlock, NixStoreBlock,
                                NixPackagesBlock, UvInstallBlock,
                                UvCacheBlock, VenvBlock,
                                RequirementsInstallBlock, PythonDepsBlock,
                                ExecuteBlock}}

\* C27: the script build_script_source emits depends only on which of
\* python_deps, requirements_file and system_deps are present and on
\* use_cache (any other input with the same presence gives the same text),
\* and no line of the caller's text stands where bash reads commands.
C27_ScriptIndependentOfDependencyText ==
    (build_out # NoBuild /\ build_out.kind = "script") =>
        /\ \A b \in BuildInputs :
              Presence(b) = Presence(build_in) =>
                 build_script_source(b.dependencies, b.requirements_file,
                                     b.system_dependencies, b.use_cache)
                    = build_out.source
        /\ \A i \in DOMAIN build_out.source :
              \/ i \in HereDocData(build_out.source)
              \/ /\ build_out.source[i] \in BuilderLines
                 /\ build_out.source[i] = HereDocEnd =>
                       (i - 1) \in HereDocData(build_out.source)
                          \/ build_out.source[i - 1] = HereDocHead

\* C30: the workflow of a single task has one template; it is a script
\* template that runs the bootstrap script under bash iff at least one of
\* python_deps, requirements_file and system_deps is present, and a
\* container template that runs python -c on the code otherwise; its image
\* is the portable-Nix image iff system_deps is present, and the minimal
\* Python image otherwise.
C30_TemplateAndImageByPresence ==
    (build_out # NoBuild /\ build_out.kind = "workflow") =>
        LET any_dep == \/ build_in.dependencies # <<>>
                       \/ build_in.requirements_file # <<>>
                       \/ build_in.system_dependencies # <<>>
            t == build_out.templates[1]
        IN  /\ Len(build_out.templates) = 1
            /\ any_dep =>
                  /\ t.type = "script"
                  /\ t.command = <<"bash">>
                  /\ t.source =
                        build_script_source(build_in.dependencies,
                                            build_in.requirements_file,
                                            build_in.system_dependencies,
                                            build_in.use_cache)
            /\ ~any_dep =>
                  /\ t.type = "container"
                  /\ t.command = <<"python", "-c">>
                  /\ t.source = <<build_in.python_code>>
            /\ build_in.system_dependencies # <<>> =>
                  t.image = "nix-portable-base:latest"
            /\ build_in.system_dependencies = <<>> =>
                  t.image = "python:3.11-slim"

\* A workflow has been built for a task whose only dependency input is
\* system_deps: a script template on the portable-Nix image.
C30_Witness ==
    /\ build_out # NoBuild
    /\ build_out.kind = "workflow"
    /\ build_in.dependencies = <<>>
    /\ build_in.requirements_file = <<>>
    /\ build_in.system_dependencies # <<>>
    /\ build_out.templates[1].type = "script"
    /\ build_out.templates[1].image = "nix-portable-base:latest"

----------------------------------------------------------------------------
(* Properties of a first run and its manifest (SpecSubmit) *)

\* The body of a run request that gives no option (main.py 1008-1010).
DefaultRunRequest == [systemDependencies |-> <<>>, useCache |-> TRUE]

\* The task row t declares no dependency of any kind.
NoDependencies(t) ==
    /\ task_table[t].dependencies = <<>>
    /\ task_table[t].requirements_file = <<>>
    /\ task_table[t].system_dependencies = <<>>

\* C31: a run_task that creates a run writes a Pending row, and the
\* template of the manifest it submits mounts the result volume always and
\* the two cache volumes exactly when the cache is enabled for that run;
\* for the first run of a task without dependencies, asked for with the
\* default options, the row has run_number 1 and the template is a
\* container template that mounts only the task-results volume.
C31_FirstRunMountsOnlyResults ==
    [][Len(run_table') = Len(run_table) + 1 =>
          LET row == run_table'[Len(run_table')]
              t == row.task_id
              m == manifests'[row.workflow_id]
              tpl == m.templates[1]
              run_request == store_reply'.request
          IN  /\ row.phase = "Pending"
              /\ "task-results" \in tpl.volume_mounts
              /\ tpl.volume_mounts \ {"task-results"} =
                    IF run_request.useCache THEN {"uv-cache", "nix-store"}
                    ELSE {}
              /\ (/\ SnapshotsOf(t) = {}
                  /\ NoDependencies(t)
                  /\ run_request.systemDependencies =
                        DefaultRunRequest.systemDependencies
                  /\ run_request.useCache = DefaultRunRequest.useCache)
                    => /\ row.run_number = 1
                       /\ tpl.type = "container"
                       /\ tpl.volume_mounts = {"task-results"}]_vars

----------------------------------------------------------------------------
(* Properties of the schema evolution (SpecSchema) *)

\* C32: a startup always completes; a startup in which no statement fails
\* leaves every evolved column (run_id on task_logs, the code-snapshot
\* columns and system_dependencies on task_runs, system_dependencies on
\* tasks) in the store; and a startup after such a startup changes no
\* column.
C32_StartupAddsEvolvedColumns ==
    [][boot'.boots = boot.boots + 1 =>
          /\ boot'.completed
          /\ ~boot'.cut_short =>
                \A tb \in StoreTables : EvolvedColumns[tb] \subseteq catalog'[tb]
          /\ (boot.boots >= 1 /\ ~boot.cut_short /\ ~boot'.cut_short) =>
                catalog' = catalog]_vars

----------------------------------------------------------------------------
(* Properties of the Phase Resolver along one workflow (SpecAdvance) *)

\* C33: while the documents of a workflow only advance, the resolved phase
\* never goes from Running back to Pending and never from a terminal phase
\* to a phase that is not terminal.
C33_ResolvedNeverRegresses ==
    [][/\ resolved = "Running" => resolved' # "Pending"
       /\ resolved \in TerminalPhases => resolved' \in TerminalPhases]_vars

----------------------------------------------------------------------------
(* Properties of the phase a pull stores (SpecLogs) *)

\* What the pull that took slot s in this step answers or is about to
\* answer.
PullAnswerOf(s) ==
    IF pulls'[s].pc = "saving" THEN pulls'[s].response ELSE pulled'

ThirdStrategyNodes(nodes, step_id) ==
    {n \in DOMAIN nodes : NodeMatches(nodes, n, <<step_id>>)}

StoredStepPhases == {"Succeeded", "Running", "Failed", "Pending"}

\* run_flow has created a FlowRun with one Pending StepRun per declared
\* step, in the primed state.
OneStepRunPerStep ==
    /\ flow_run_row'.phase = "Pending"
    /\ Len(step_runs') = Len(flow_definition.steps)
    /\ \A j \in DOMAIN step_runs' :
          /\ step_runs'[j].step_id = flow_definition.steps[j]
          /\ step_runs'[j].phase = "Pending"

\* The engine reports the workflow and the nodes of all its steps
\* Succeeded.
AllSucceeded(doc) ==
    /\ doc.phase = "Succeeded"
    /\ \A k \in DOMAIN doc.nodes : doc.nodes[k].phase = "Succeeded"

\* A poll has left the FlowRun and every StepRun Succeeded, in the primed
\* state.
PollLeavesSucceeded ==
    /\ flow_run_row'.phase = "Succeeded"
    /\ \A j \in DOMAIN step_runs' : step_runs'[j].phase = "Succeeded"

\* C36: run_flow creates a FlowRun with exactly one StepRun per declared
\* step, all Pending; a stored StepRun phase is always Succeeded, Running,
\* Failed or Pending; and a poll that reads a document in which the
\* workflow and all its step nodes are Succeeded leaves the FlowRun and
\* every StepRun Succeeded.
C36_StepRunsFollowEngine ==
    [][/\ (flow_run_row = NoFlowRun /\ flow_run_row' # NoFlowRun)
             => OneStepRunPerStep
       /\ \A j \in DOMAIN step_runs' :
             step_runs'[j].phase \in StoredStepPhases
       /\ (flow_run_row'.op = "get_flow_run" /\ AllSucceeded(flow_doc))
             => PollLeavesSucceeded]_vars

\* A tick of the push stream: one call of fetch_and_send_logs returns.
StreamTick ==
    /\ stream.pc \in {"first", "poll"}
    /\ stream'.pc \in {"poll", "test"}
    /\ stream'.pc # stream.pc

\* The step is a tick in which the status read or the log fetch failed.
EngineUnreached ==
    \E read_fails, fetch_fails, message \in BOOLEAN, out \in PullPodOutcomes :
       /\ read_fails \/ fetch_fails
       /\ fetch_and_send_logs(read_fails, fetch_fails, out, message)

\* C37: when the engine cannot be reached during a tick of the push stream
\* (the status read or the log fetch fails), the stream is not torn down,
\* the logs the tick serves are the logs stored for the run, and the stream
\* keeps polling.
C37_TickFallsBackToStoredLogs ==
    [][(StreamTick /\ EngineUnreached) =>
          LET db_logs == get_logs_from_database(task_logs, stream.run)
          IN  /\ stream'.pc \in {"poll", "test"}
              /\ stream'.all_logs = db_logs
              /\ \A j \in DOMAIN frames' :
                    frames'[j] = LogsFrame(db_logs, stream'.phase)]_vars

\* The entries a read of the logs of a run answers in this state.
LegacyLogsOf(run) ==
    Range(get_logs_from_database_old_schema(legacy.rows, LegacyWorkflows[run]))

\* C38: under the schema without run_id, with two runs of one task under
\* different workflow names, every log record saved for a run is answered
\* by a read of that run, is not answered by a read of the other run, and
\* is not overwritten by a save of the other run.
C38_LegacyLogsKeptApart ==
    \A w \in legacy.saved :
       /\ w.entry \in LegacyLogsOf(w.run)
       /\ \A other \in LegacyRuns \ {w.run} :
             w.entry \in LegacyLogsOf(other)
                => [run |-> other, entry |-> w.entry] \in legacy.saved
       /\ \E k \in DOMAIN legacy.rows :
             /\ legacy.rows[k].node_id = w.entry.node
             /\ legacy.rows[k].pod_name = w.entry.pod
             /\ legacy.rows[k].phase = w.entry.phase
             /\ legacy.rows[k].logs = w.entry.logs

\* Run row i is the latest run of its task, its stored phase is Pending or
\* Running, and its workflow no longer exists in the engine.
Stuck(i) ==
    /\ task_runs[i].owner \in Tasks
    /\ i \in LatestRunIds(task_runs, task_runs[i].owner)
    /\ task_runs[i].phase \in ActivePhases
    /\ ~workflows[task_runs[i].workflow_id]

RunTaskReturns(r) ==
    /\ req[r].op = "run_task"
    /\ req[r].pc = "numbered"
    /\ req'[r].pc \in {"done", "failed"}

\* C40: run_task is all-or-nothing with respect to the engine and the
\* store: when it returns, the workflow it submitted to the engine has a
\* committed run row that carries its workflow_id, also when the insert or
\* the commit failed after the workflow was submitted.
C40_SubmittedWorkflowHasRun ==
    [][\A r \in Reqs :
          (RunTaskReturns(r) /\ workflows'[req[r].workflow_id]) =>
             \E i \in DOMAIN task_runs' :
                /\ task_runs'[i].workflow_id = req[r].workflow_id
                /\ task_runs'[i].owner = req[r].target]_vars

============================================================================
